---- MODULE Spec2Model ----
(***************************************************************************)
(* Model of the execution-graph replay engine ExgrReplayManager            *)
(* (train/compute/python/tools/eg_replay.py): flattening of the trace,     *)
(* tensor identity resolution, lifetime analysis, allocation, registry     *)
(* reset and the timed replay loop.                                        *)
(***************************************************************************)
EXTENDS Integers, Sequences, FiniteSets, TLC

\* ------------------------------------------------------------------ bounds
\* args.warmup ranges over 0..MaxWarmup, args.iter over 1..MaxIters.
MaxWarmup == 1
MaxIters == 2

\* ------------------------------------------------------------- trace model
\* A tensor identity key is the 5-tuple
\* (tensor_id, storage_id, offset, num_elem, elem_bytes).
K1 == <<11, 1, 0, 4, 4>>
K2 == <<12, 2, 0, 4, 4>>
K3 == <<13, 3, 0, 4, 4>>
K4 == <<14, 4, 0, 4, 4>>

S1 == <<4>>
S2 == <<2, 2>>

\* One element of get_input_tensors(node) / get_output_tensors(node):
\* (data_type, t_id, shape). With device information the captured t_id
\* carries the device as a sixth component.
Arg(wd, k, s, d, ty) ==
    [type |-> ty, t_id |-> IF wd THEN Append(k, d) ELSE k, shape |-> s]

T(wd, k, s) == Arg(wd, k, s, "cuda:0", "Tensor(float)")

\* A node of the trace. qualified / skip / malformed / resolvable are the
\* answers of the external predicates is_qualified, skip_op, of the node
\* accessors and of build_torchscript_func for this node; nret is the number
\* of tensors the operator returns after flattening.
Node(id, name, children, qualified, skip, malformed, resolvable, ins, outs, oc, nret) ==
    [id |-> id, name |-> name, children |-> children, qualified |-> qualified,
     skip |-> skip, malformed |-> malformed, resolvable |-> resolvable,
     inputs |-> ins, outputs |-> outs, output_count |-> oc, nret |-> nret]

Op(id, name, children, ins, outs, oc, nret) ==
    Node(id, name, children, TRUE, FALSE, FALSE, TRUE, ins, outs, oc, nret)

RootId == 1

\* Profiles of the operator with node id 2.
Lib2(wd) ==
    { Op(2, "aten::ones", <<>>, <<>>, <<T(wd, K1, S1)>>, 1, 1),
      Op(2, "aten::add_", <<>>, <<T(wd, K1, S1)>>, <<T(wd, K1, S1)>>, 1, 1),
      Op(2, "aten::cat", <<>>, <<T(wd, K1, S1), T(wd, K1, S2)>>, <<T(wd, K2, S1)>>, 1, 1),
      Node(2, "aten::custom", <<>>, TRUE, FALSE, FALSE, FALSE,
           <<>>, <<T(wd, K1, S1)>>, 0, 0),
      Op(2, "aten::split", <<>>, <<>>, <<T(wd, K1, S1), T(wd, K2, S1)>>, 1, 1),
      Node(2, "aten::broken", <<>>, TRUE, FALSE, TRUE, TRUE,
           <<T(wd, K1, S1)>>, <<>>, 0, 0) }

\* Profiles of the operator with node id 3.
Lib3(wd) ==
    { Op(3, "aten::relu", <<>>, <<T(wd, K1, S1)>>, <<T(wd, K2, S1)>>, 1, 1),
      Op(3, "aten::embedding_bag", <<>>,
         <<T(wd, K3, S2), T(wd, K1, S1), T(wd, K2, S1)>>, <<T(wd, K2, S2)>>, 1, 1),
      Op(3, "aten::embedding_bag", <<>>,
         <<T(wd, K3, S2), T(wd, K1, S1), Arg(wd, K2, S1, "cuda:0", "Tensor(unknown)")>>,
         <<T(wd, K2, S2)>>, 1, 1),
      Op(3, "aten::view", <<>>, <<T(wd, K1, S1)>>, <<T(wd, K1, S2)>>, 1, 1),
      Op(3, "fbgemm::split_embedding_codegen_lookup_sgd_function", <<>>,
         <<T(wd, K1, S1), T(wd, K2, S1)>>, <<T(wd, K3, S1)>>, 1, 1),
      Op(3, "aten::record", <<>>, <<T(wd, K1, S1)>>, <<T(wd, K2, S1)>>, 0, 1),
      Op(3, "aten::to", <<>>,
         <<Arg(wd, K3, S1, "cpu", "Tensor(unknown)")>>, <<T(wd, K2, S1)>>, 1, 1) }

\* Profiles of the operator with node id 4.
Lib4(wd) ==
    { Op(4, "aten::sum", <<>>, <<T(wd, K2, S1)>>, <<>>, 0, 0),
      Op(4, "aten::reshape", <<>>, <<T(wd, K1, S2)>>, <<T(wd, K1, S1)>>, 1, 1),
      Op(4, "aten::mul", <<>>, <<T(wd, K1, S1), T(wd, K3, S1)>>, <<T(wd, K2, S1)>>, 1, 1),
      Op(4, "aten::clone", <<>>, <<T(wd, K2, S1)>>, <<T(wd, K4, S1)>>, 1, 1),
      Op(4, "aten::stack", <<>>, <<T(wd, K1, S1), T(wd, K1, S2)>>, <<T(wd, K1, S2)>>, 1, 1),
      Op(4, "aten::unbind", <<>>, <<T(wd, K1, S1)>>, <<>>, 1, 0) }

\* Profiles of node 5, the parent of nodes 4 and 3.
Lib5(wd) ==
    { Node(5, "## forward ##", <<4, 3>>, FALSE, FALSE, FALSE, FALSE, <<>>, <<>>, 0, 0),
      Op(5, "fb::to_dense_representation", <<4, 3>>,
         <<T(wd, K2, S1)>>, <<T(wd, K1, S1)>>, 1, 1),
      Node(5, "aten::record_stream", <<4, 3>>, FALSE, TRUE, FALSE, FALSE, <<>>, <<>>, 0, 0),
      Op(5, "aten::linear", <<4, 3>>, <<T(wd, K2, S1)>>, <<>>, 0, 0),
      Node(5, "aten::broken", <<4, 3>>, FALSE, FALSE, TRUE, FALSE, <<>>, <<>>, 0, 0) }

Root == Node(RootId, "[pytorch|profiler|execution_graph|thread]", <<5, 2>>,
             FALSE, FALSE, FALSE, FALSE, <<>>, <<>>, 0, 0)

\* The parsed traces: node id -> node (ExecutionGraph.get_nodes). Under a
\* node 5 the traversal does not descend from (an operator, a malformed
\* node) one pair of children stands for all.
Traces ==
    { (1 :> Root) @@ (2 :> n[1]) @@ (3 :> n[2]) @@ (4 :> n[3]) @@ (5 :> n[4]) :
        n \in { m \in UNION { Lib2(wd) \X Lib3(wd) \X Lib4(wd) \X Lib5(wd) :
                                wd \in BOOLEAN } :
                  (m[4].qualified \/ m[4].malformed) =>
                    (m[2].name = "aten::relu" /\ m[3].name = "aten::sum") } }

\* ---------------------------------------------------------------- helpers
\* x in name, for the names of the traces and the strings the code looks for.
SubstringsOf(name) ==
    CASE name = "fb::to_dense_representation" -> {"fb::"}
      [] name = "aten::embedding_bag" -> {"aten::", "aten::embedding_bag"}
      [] name = "fbgemm::split_embedding_codegen_lookup_sgd_function" ->
            {"fbgemm::", "fbgemm::split_embedding_codegen_lookup"}
      [] name = "aten::record_stream" -> {"aten::", "aten::record_stream"}
      [] name \in {"aten::ones", "aten::add_", "aten::cat", "aten::custom",
                   "aten::split", "aten::relu", "aten::view", "aten::record",
                   "aten::to", "aten::sum", "aten::reshape", "aten::mul",
                   "aten::clone", "aten::linear", "aten::broken",
                   "aten::stack", "aten::unbind"} -> {"aten::"}
      [] OTHER -> {}

NameContains(name, x) == x \in SubstringsOf(name)

skip_node_names ==
    <<"DataLoader", "aten::set_", "fb::", "c10d::allreduce_", "pyspeech::",
      "All2All_Pooled_Wait", "adagrad">>

Range(s) == { s[i] : i \in 1..Len(s) }

\* tuple(list(t_id)[:5])
Key5(t_id) == SubSeq(t_id, 1, 5)


\* ------------------------------------------------------------------ state
VARIABLES
    exgr,                    \* the parsed trace, node id -> node
    numWarmupIters, numIters,
    pc,                      \* position of benchTime / preprocess_graph
    stack,                   \* children still to visit by _dfs_traverse
    cursor,                  \* index of the loop the current pass is in
    tensor_with_device,
    sorted_nodes,            \* ids of the nodes to replay
    selected,                \* history: the node ids in the order of selection
    visited,                 \* history: the node ids _dfs_traverse looked at
    dependency_permanent,    \* key -> number of input occurrences
    funcs,                   \* node id -> [func, output_count]
    fbgemm_backward_ops,
    actual_skip_nodes, actual_skip_nodes_cnt,
    original_unique_tensors, replay_unique_tensor_num,
    tensors_mapping,         \* <<node id, key, input>> -> replay tensor id
    replay_tensors_shapes, tensor_shapes, tensor_device,
    output_set, instantiate,
    tensor_registry_permanent, tensor_registry,
    unchangeable_intermediate_tensors, cpu_tensor,
    iter, total_time,
    timed_iters,             \* history: iterations whose time was accumulated
    dispatched,              \* history: <<iter, node id>> of every run_op call
    failure,                 \* the error that ended the process, or "none"
    report                   \* the lines benchTime prints after the loop

vars ==
    <<exgr, numWarmupIters, numIters, pc, stack, cursor, tensor_with_device,
      sorted_nodes, selected, dependency_permanent, funcs, fbgemm_backward_ops,
      actual_skip_nodes, actual_skip_nodes_cnt, original_unique_tensors,
      replay_unique_tensor_num, tensors_mapping, replay_tensors_shapes,
      tensor_shapes, tensor_device, output_set, instantiate,
      tensor_registry_permanent, tensor_registry,
      unchangeable_intermediate_tensors, cpu_tensor, iter, total_time,
      timed_iters, dispatched, visited, failure, report>>

configVars == <<exgr, numWarmupIters, numIters>>
flattenVars ==
    <<sorted_nodes, selected, dependency_permanent, funcs, fbgemm_backward_ops,
      actual_skip_nodes, actual_skip_nodes_cnt>>
identityVars ==
    <<original_unique_tensors, replay_unique_tensor_num, tensors_mapping,
      replay_tensors_shapes, tensor_shapes, tensor_device>>
lifetimeVars == <<output_set, instantiate>>
allocVars ==
    <<tensor_registry_permanent, unchangeable_intermediate_tensors, cpu_tensor>>
loopVars == <<iter, total_time, timed_iters, dispatched>>

EmptyMap == [x \in {} |-> 0]

\* Nothing is printed before the loop of benchTime is over.
Unreported == [time |-> <<0, 0>>, coverage |-> <<0, 0>>]

\* ExgrReplayManager.__init__
Init ==
    /\ exgr \in Traces
    /\ numWarmupIters \in {0, MaxWarmup}
    /\ numIters \in {1, MaxIters}
    /\ pc = "detect"
    /\ stack = <<>>
    /\ cursor = 0
    /\ tensor_with_device = TRUE
    /\ sorted_nodes = <<>>
    /\ selected = <<>>
    /\ dependency_permanent = EmptyMap
    /\ funcs = EmptyMap
    /\ fbgemm_backward_ops = <<>>
    /\ actual_skip_nodes = <<>>
    /\ actual_skip_nodes_cnt = 0
    /\ original_unique_tensors = {}
    /\ replay_unique_tensor_num = 0
    /\ tensors_mapping = EmptyMap
    /\ replay_tensors_shapes = EmptyMap
    /\ tensor_shapes = EmptyMap
    /\ tensor_device = EmptyMap
    /\ output_set = {}
    /\ instantiate = {}
    /\ tensor_registry_permanent = EmptyMap
    /\ tensor_registry = EmptyMap
    /\ unchangeable_intermediate_tensors = {}
    /\ cpu_tensor = {}
    /\ iter = 0
    /\ total_time = 0
    /\ timed_iters = {}
    /\ dispatched = <<>>
    /\ visited = <<>>
    /\ failure = "none"
    /\ report = Unreported

\* ------------------------------------------------- detect_tensor_device
\* The t_ids _traverse looks at: the first input tensor of a child, else its
\* first output tensor, else those of the child's subtree; a child that has
\* a tensor ends the loop over its siblings.
RECURSIVE ExaminedTensors(_, _)
ExaminedTensors(g, children) ==
    IF children = <<>> THEN {}
    ELSE LET child == g[Head(children)] IN
         IF child.inputs # <<>> THEN {child.inputs[1].t_id}
         ELSE IF child.outputs # <<>> THEN {child.outputs[1].t_id}
         ELSE ExaminedTensors(g, child.children)
                \cup ExaminedTensors(g, Tail(children))

DetectTensorDevice ==
    /\ pc = "detect"
    /\ tensor_with_device' =
         ~(\E t \in ExaminedTensors(exgr, exgr[RootId].children) : Len(t) = 5)
    /\ stack' = exgr[RootId].children
    /\ pc' = "extract"
    /\ UNCHANGED <<configVars, report, cursor, flattenVars, identityVars, lifetimeVars,
                   allocVars, tensor_registry, loopVars, visited, failure>>

\* --------------------------------------------------------- extract_subgraph
\* The key the engine uses for a captured t_id.
KeyOf(wd, t_id) == IF wd THEN Key5(t_id) ELSE t_id

\* Mutant: a key is only noted, not counted.
RECURSIVE CountInputsOnce(_, _, _)
CountInputsOnce(dep, wd, ins) ==
    IF ins = <<>> THEN dep
    ELSE CountInputsOnce((KeyOf(wd, Head(ins).t_id) :> 1) @@ dep, wd, Tail(ins))

\* self.dependency_permanent[t_id] += 1 for every input tensor of the node.
RECURSIVE CountInputs(_, _, _)
CountInputs(dep, wd, ins) ==
    IF ins = <<>> THEN dep
    ELSE LET k == KeyOf(wd, Head(ins).t_id)
             n == IF k \in DOMAIN dep THEN dep[k] ELSE 0
         IN CountInputs((k :> n + 1) @@ dep, wd, Tail(ins))

is_fbgemm_forward(node) ==
    NameContains(node.name, "fbgemm::split_embedding_codegen_lookup")

is_fbgemm_backward(node) ==
    NameContains(node.name, "fbgemm::split_embedding_codegen_lookup_backward")

\* build_func: the (func, output_count) of a node, whether it is recorded as
\* skipped, and the new stack of fbgemm backward operators; "raise" when the
\* assert fails.
BuildFunc(node, bops) ==
    IF is_fbgemm_forward(node)
    THEN [func |-> "fbgemm_forward", output_count |-> node.output_count,
          skipped |-> FALSE, bops |-> Append(bops, node.id), raise |-> FALSE]
    ELSE IF is_fbgemm_backward(node)
    THEN [func |-> "fbgemm_backward", output_count |-> Len(node.outputs),
          skipped |-> FALSE,
          bops |-> IF bops = <<>> THEN bops ELSE SubSeq(bops, 1, Len(bops) - 1),
          raise |-> bops = <<>>]
    ELSE [func |-> IF node.resolvable THEN "torchscript" ELSE "None",
          output_count |-> node.output_count,
          skipped |-> ~node.resolvable, bops |-> bops, raise |-> FALSE]

\* Mutant: the name has to be an entry of the skip list.
InSkipListExactName(name) == \E i \in 1..Len(skip_node_names) : name = skip_node_names[i]

\* any(x in child.name for x in self.skip_node_names)
InSkipList(name) == \E i \in 1..Len(skip_node_names) : NameContains(name, skip_node_names[i])

\* sorted(self.sorted_nodes, key=lambda x: x.id): a stable sort by node id.
\* Mutant: the insertion compares the ids the wrong way round.
RECURSIVE InsertByIdDescending(_, _)
InsertByIdDescending(sorted, x) ==
    IF sorted = <<>> THEN <<x>>
    ELSE IF Head(sorted) >= x
    THEN <<Head(sorted)>> \o InsertByIdDescending(Tail(sorted), x)
    ELSE <<x>> \o sorted

RECURSIVE InsertById(_, _)
InsertById(sorted, x) ==
    IF sorted = <<>> THEN <<x>>
    ELSE IF Head(sorted) <= x THEN <<Head(sorted)>> \o InsertById(Tail(sorted), x)
    ELSE <<x>> \o sorted

\* Mutant: the selected nodes are left in insertion order.
SortByIdOmitted(nodes) == nodes

RECURSIVE SortById(_)
SortById(nodes) ==
    IF nodes = <<>> THEN <<>>
    ELSE InsertById(SortById(SubSeq(nodes, 1, Len(nodes) - 1)), nodes[Len(nodes)])

\* The traversal is over: line 233 sorts what it selected.
FinishTraversal(nodes, rest) ==
    IF rest = <<>> THEN SortById(nodes) ELSE nodes

\* Mutant: the error of a node is reported and the traversal goes on.
DfsTraverseSkippingMalformed ==
    /\ pc = "extract"
    /\ stack # <<>>
    /\ LET child == exgr[Head(stack)]
           rest == Tail(stack)
       IN IF InSkipList(child.name)
          THEN /\ actual_skip_nodes' = Append(actual_skip_nodes, child.name)
               /\ actual_skip_nodes_cnt' = actual_skip_nodes_cnt + 1
               /\ stack' = rest
               /\ sorted_nodes' = FinishTraversal(sorted_nodes, rest)
               /\ pc' = IF rest = <<>> THEN "identity" ELSE "extract"
               /\ UNCHANGED <<selected, dependency_permanent, funcs,
                              fbgemm_backward_ops, failure>>
          ELSE IF child.malformed
          THEN /\ pc' = IF rest = <<>> THEN "identity" ELSE "extract"
               /\ failure' = "parse"
               /\ stack' = rest
               /\ sorted_nodes' = FinishTraversal(sorted_nodes, rest)
               /\ UNCHANGED <<selected, dependency_permanent, funcs,
                              fbgemm_backward_ops, actual_skip_nodes,
                              actual_skip_nodes_cnt>>
          ELSE IF child.qualified
          THEN LET b == BuildFunc(child, fbgemm_backward_ops) IN
               IF b.raise
               THEN /\ pc' = "aborted"
                    /\ failure' = "parse"
                    /\ UNCHANGED <<stack, flattenVars>>
               ELSE /\ sorted_nodes' =
                         FinishTraversal(Append(sorted_nodes, child.id), rest)
                    /\ selected' = Append(selected, child.id)
                    /\ dependency_permanent' =
                         CountInputs(dependency_permanent, tensor_with_device,
                                     child.inputs)
                    /\ funcs' = (child.id :> [func |-> b.func,
                                              output_count |-> b.output_count])
                                  @@ funcs
                    /\ fbgemm_backward_ops' = b.bops
                    /\ actual_skip_nodes' =
                         IF b.skipped THEN Append(actual_skip_nodes, child.name)
                         ELSE actual_skip_nodes
                    /\ actual_skip_nodes_cnt' =
                         IF b.skipped THEN actual_skip_nodes_cnt + 1
                         ELSE actual_skip_nodes_cnt
                    /\ stack' = rest
                    /\ pc' = IF rest = <<>> THEN "identity" ELSE "extract"
                    /\ failure' = failure
          ELSE LET next == child.children \o rest IN
               /\ actual_skip_nodes' =
                    IF child.skip THEN Append(actual_skip_nodes, child.name)
                    ELSE actual_skip_nodes
               /\ actual_skip_nodes_cnt' =
                    IF child.skip THEN actual_skip_nodes_cnt + 1
                    ELSE actual_skip_nodes_cnt
               /\ stack' = next
               /\ sorted_nodes' = FinishTraversal(sorted_nodes, next)
               /\ pc' = IF next = <<>> THEN "identity" ELSE "extract"
               /\ UNCHANGED <<selected, dependency_permanent, funcs,
                              fbgemm_backward_ops, failure>>
    /\ visited' = Append(visited, Head(stack))
    /\ cursor' = 1
    /\ UNCHANGED <<configVars, report, tensor_with_device, identityVars, lifetimeVars,
                   allocVars, tensor_registry, loopVars>>

\* Mutant: the subtree of a selected node is traversed as well.
DfsTraverseBelowSelected ==
    /\ pc = "extract"
    /\ stack # <<>>
    /\ LET child == exgr[Head(stack)]
           rest == Tail(stack)
       IN IF InSkipList(child.name)
          THEN /\ actual_skip_nodes' = Append(actual_skip_nodes, child.name)
               /\ actual_skip_nodes_cnt' = actual_skip_nodes_cnt + 1
               /\ stack' = rest
               /\ sorted_nodes' = FinishTraversal(sorted_nodes, rest)
               /\ pc' = IF rest = <<>> THEN "identity" ELSE "extract"
               /\ UNCHANGED <<selected, dependency_permanent, funcs,
                              fbgemm_backward_ops, failure>>
          ELSE IF child.malformed
          THEN /\ pc' = "aborted"
               /\ failure' = "parse"
               /\ UNCHANGED <<stack, flattenVars>>
          ELSE IF child.qualified
          THEN LET b == BuildFunc(child, fbgemm_backward_ops) IN
               IF b.raise
               THEN /\ pc' = "aborted"
                    /\ failure' = "parse"
                    /\ UNCHANGED <<stack, flattenVars>>
               ELSE /\ sorted_nodes' =
                         FinishTraversal(Append(sorted_nodes, child.id), child.children \o rest)
                    /\ selected' = Append(selected, child.id)
                    /\ dependency_permanent' =
                         CountInputs(dependency_permanent, tensor_with_device,
                                     child.inputs)
                    /\ funcs' = (child.id :> [func |-> b.func,
                                              output_count |-> b.output_count])
                                  @@ funcs
                    /\ fbgemm_backward_ops' = b.bops
                    /\ actual_skip_nodes' =
                         IF b.skipped THEN Append(actual_skip_nodes, child.name)
                         ELSE actual_skip_nodes
                    /\ actual_skip_nodes_cnt' =
                         IF b.skipped THEN actual_skip_nodes_cnt + 1
                         ELSE actual_skip_nodes_cnt
                    /\ stack' = child.children \o rest
                    /\ pc' = IF child.children \o rest = <<>> THEN "identity" ELSE "extract"
                    /\ failure' = failure
          ELSE LET next == child.children \o rest IN
               /\ actual_skip_nodes' =
                    IF child.skip THEN Append(actual_skip_nodes, child.name)
                    ELSE actual_skip_nodes
               /\ actual_skip_nodes_cnt' =
                    IF child.skip THEN actual_skip_nodes_cnt + 1
                    ELSE actual_skip_nodes_cnt
               /\ stack' = next
               /\ sorted_nodes' = FinishTraversal(sorted_nodes, next)
               /\ pc' = IF next = <<>> THEN "identity" ELSE "extract"
               /\ UNCHANGED <<selected, dependency_permanent, funcs,
                              fbgemm_backward_ops, failure>>
    /\ visited' = Append(visited, Head(stack))
    /\ cursor' = 1
    /\ UNCHANGED <<configVars, report, tensor_with_device, identityVars, lifetimeVars,
                   allocVars, tensor_registry, loopVars>>

\* One turn of the loop of _dfs_traverse, on the next child in depth-first
\* order; after the last one extract_subgraph sorts the selected nodes.
DfsTraverse ==
    /\ pc = "extract"
    /\ stack # <<>>
    /\ LET child == exgr[Head(stack)]
           rest == Tail(stack)
       IN IF InSkipList(child.name)
          THEN /\ actual_skip_nodes' = Append(actual_skip_nodes, child.name)
               /\ actual_skip_nodes_cnt' = actual_skip_nodes_cnt + 1
               /\ stack' = rest
               /\ sorted_nodes' = FinishTraversal(sorted_nodes, rest)
               /\ pc' = IF rest = <<>> THEN "identity" ELSE "extract"
               /\ UNCHANGED <<selected, dependency_permanent, funcs,
                              fbgemm_backward_ops, failure>>
          ELSE IF child.malformed
          THEN /\ pc' = "aborted"
               /\ failure' = "parse"
               /\ UNCHANGED <<stack, flattenVars>>
          ELSE IF child.qualified
          THEN LET b == BuildFunc(child, fbgemm_backward_ops) IN
               IF b.raise
               THEN /\ pc' = "aborted"
                    /\ failure' = "parse"
                    /\ UNCHANGED <<stack, flattenVars>>
               ELSE /\ sorted_nodes' =
                         FinishTraversal(Append(sorted_nodes, child.id), rest)
                    /\ selected' = Append(selected, child.id)
                    /\ dependency_permanent' =
                         CountInputs(dependency_permanent, tensor_with_device,
                                     child.inputs)
                    /\ funcs' = (child.id :> [func |-> b.func,
                                              output_count |-> b.output_count])
                                  @@ funcs
                    /\ fbgemm_backward_ops' = b.bops
                    /\ actual_skip_nodes' =
                         IF b.skipped THEN Append(actual_skip_nodes, child.name)
                         ELSE actual_skip_nodes
                    /\ actual_skip_nodes_cnt' =
                         IF b.skipped THEN actual_skip_nodes_cnt + 1
                         ELSE actual_skip_nodes_cnt
                    /\ stack' = rest
                    /\ pc' = IF rest = <<>> THEN "identity" ELSE "extract"
                    /\ failure' = failure
          ELSE LET next == child.children \o rest IN
               /\ actual_skip_nodes' =
                    IF child.skip THEN Append(actual_skip_nodes, child.name)
                    ELSE actual_skip_nodes
               /\ actual_skip_nodes_cnt' =
                    IF child.skip THEN actual_skip_nodes_cnt + 1
                    ELSE actual_skip_nodes_cnt
               /\ stack' = next
               /\ sorted_nodes' = FinishTraversal(sorted_nodes, next)
               /\ pc' = IF next = <<>> THEN "identity" ELSE "extract"
               /\ UNCHANGED <<selected, dependency_permanent, funcs,
                              fbgemm_backward_ops, failure>>
    /\ visited' = Append(visited, Head(stack))
    /\ cursor' = 1
    /\ UNCHANGED <<configVars, report, tensor_with_device, identityVars, lifetimeVars,
                   allocVars, tensor_registry, loopVars>>


\* ---------------------------------------------------------- analyze_tensors
\* The tensor occurrences in the order the first loop of analyze_tensors
\* meets them: per node of sorted_nodes its inputs, then its outputs.
OccsOfNode(node) ==
    [i \in 1..Len(node.inputs) |-> [node |-> node.id, input |-> TRUE, idx |-> i]]
      \o [i \in 1..Len(node.outputs) |-> [node |-> node.id, input |-> FALSE, idx |-> i]]

RECURSIVE Occurrences(_, _)
Occurrences(g, nodes) ==
    IF nodes = <<>> THEN <<>>
    ELSE OccsOfNode(g[Head(nodes)]) \o Occurrences(g, Tail(nodes))

\* The (data_type, t_id, shape) of an occurrence.
ArgOf(g, o) == IF o.input THEN g[o.node].inputs[o.idx] ELSE g[o.node].outputs[o.idx]

\* The identity bookkeeping add_unique_tensor works on.
IdentityState ==
    [seen |-> original_unique_tensors, num |-> replay_unique_tensor_num,
     mapping |-> tensors_mapping, shapes |-> replay_tensors_shapes,
     tshapes |-> tensor_shapes, device |-> tensor_device]

\* Lines 286-299 and 308-319: mint the next replay tensor id for the occurrence.
MintTensor(st, wd, node_id, t_id, shape, input, device) ==
    LET n == st.num + 1
        old == IF t_id \in DOMAIN st.tshapes THEN st.tshapes[t_id] ELSE {}
    IN [seen |-> st.seen \cup {t_id},
        num |-> n,
        mapping |-> (<<node_id, t_id, input>> :> n) @@ st.mapping,
        shapes |-> (n :> shape) @@ st.shapes,
        tshapes |-> (t_id :> (old \cup {<<n, shape>>})) @@ st.tshapes,
        device |-> IF wd THEN (n :> device) @@ st.device ELSE st.device]

\* Mutant: a key seen before reuses one of its ids whatever the shape.
add_unique_tensor_any_shape(st, wd, node_id, t_id, shape, input, device) ==
    IF t_id \notin st.seen
    THEN MintTensor(st, wd, node_id, t_id, shape, input, device)
    ELSE LET p == CHOOSE q \in st.tshapes[t_id] : TRUE
         IN [st EXCEPT !.mapping = (<<node_id, t_id, input>> :> p[1]) @@ @]

\* Mutant: every occurrence mints a new id.
add_unique_tensor_always_mint(st, wd, node_id, t_id, shape, input, device) ==
    MintTensor(st, wd, node_id, t_id, shape, input, device)

\* add_unique_tensor(node_id, t_id, shape, input, device)
add_unique_tensor(st, wd, node_id, t_id, shape, input, device) ==
    IF t_id \notin st.seen
    THEN MintTensor(st, wd, node_id, t_id, shape, input, device)
    ELSE IF \E p \in st.tshapes[t_id] : p[2] = shape
    THEN LET p == CHOOSE q \in st.tshapes[t_id] : q[2] = shape
         IN [st EXCEPT !.mapping = (<<node_id, t_id, input>> :> p[1]) @@ @]
    ELSE MintTensor(st, wd, node_id, t_id, shape, input, device)

\* One turn of the first loops of analyze_tensors (lines 321-344).
AnalyzeTensorsIdentity ==
    /\ pc = "identity"
    /\ cursor <= Len(Occurrences(exgr, sorted_nodes))
    /\ LET o == Occurrences(exgr, sorted_nodes)[cursor]
           a == ArgOf(exgr, o)
           t_id == KeyOf(tensor_with_device, a.t_id)
           device == IF tensor_with_device THEN a.t_id[6] ELSE -1
           st == IF t_id \in DOMAIN dependency_permanent
                 THEN add_unique_tensor(IdentityState, tensor_with_device, o.node,
                                        t_id, a.shape, o.input, device)
                 ELSE IdentityState
       IN /\ original_unique_tensors' = st.seen
          /\ replay_unique_tensor_num' = st.num
          /\ tensors_mapping' = st.mapping
          /\ replay_tensors_shapes' = st.shapes
          /\ tensor_shapes' = st.tshapes
          /\ tensor_device' = st.device
    /\ cursor' = cursor + 1
    /\ UNCHANGED <<configVars, report, pc, stack, tensor_with_device, flattenVars,
                   lifetimeVars, allocVars, tensor_registry, loopVars, visited, failure>>

\* The keys of the tracked occurrences of a node in one role.
TrackedKeys(dep, wd, args) ==
    { KeyOf(wd, args[i].t_id) : i \in 1..Len(args) } \cap DOMAIN dep

\* Mutant: the outputs of a node are not added to the produced set.
RECURSIVE SimulateExecutionNoOutputs(_, _, _, _, _, _)
SimulateExecutionNoOutputs(g, nodes, dep, wd, mapping, acc) ==
    IF nodes = <<>> THEN acc
    ELSE LET node == g[Head(nodes)]
             consumed == { mapping[<<node.id, k, TRUE>>] :
                             k \in TrackedKeys(dep, wd, node.inputs) }
         IN SimulateExecutionNoOutputs(g, Tail(nodes), dep, wd, mapping,
              [instantiate |-> acc.instantiate \cup (consumed \ acc.output_set),
               output_set |-> acc.output_set])

\* Mutant: the outputs of a node are handled before its inputs.
RECURSIVE SimulateExecutionOutputsFirst(_, _, _, _, _, _)
SimulateExecutionOutputsFirst(g, nodes, dep, wd, mapping, acc) ==
    IF nodes = <<>> THEN acc
    ELSE LET node == g[Head(nodes)]
             consumed == { mapping[<<node.id, k, TRUE>>] :
                             k \in TrackedKeys(dep, wd, node.inputs) }
             produced == { mapping[<<node.id, k, FALSE>>] :
                             k \in TrackedKeys(dep, wd, node.outputs) }
         IN SimulateExecutionOutputsFirst(g, Tail(nodes), dep, wd, mapping,
              [instantiate |->
                 acc.instantiate \cup (consumed \ (acc.output_set \cup produced)),
               output_set |-> acc.output_set \cup produced])

\* Lines 347-362: simulate the execution in the order of sorted_nodes.
RECURSIVE SimulateExecution(_, _, _, _, _, _)
SimulateExecution(g, nodes, dep, wd, mapping, acc) ==
    IF nodes = <<>> THEN acc
    ELSE LET node == g[Head(nodes)]
             consumed == { mapping[<<node.id, k, TRUE>>] :
                             k \in TrackedKeys(dep, wd, node.inputs) }
             produced == { mapping[<<node.id, k, FALSE>>] :
                             k \in TrackedKeys(dep, wd, node.outputs) }
         IN SimulateExecution(g, Tail(nodes), dep, wd, mapping,
              [instantiate |-> acc.instantiate \cup (consumed \ acc.output_set),
               output_set |-> acc.output_set \cup produced])

AnalyzeTensorsLifetime ==
    /\ pc = "identity"
    /\ cursor > Len(Occurrences(exgr, sorted_nodes))
    /\ LET r == SimulateExecution(exgr, sorted_nodes, dependency_permanent,
                                  tensor_with_device, tensors_mapping,
                                  [instantiate |-> instantiate, output_set |-> {}])
       IN /\ instantiate' = r.instantiate
          /\ output_set' = r.output_set
    /\ pc' = "allocate"
    /\ cursor' = 1
    /\ UNCHANGED <<configVars, report, stack, tensor_with_device, flattenVars,
                   identityVars, allocVars, tensor_registry, loopVars, visited, failure>>


\* --------------------------------------------------------- allocate_tensors
\* Tensor values. None is the null entry of a registry; the other values
\* record where they come from and the device they live on.
None == [kind |-> "None", id |-> 0, node |-> 0, iter |-> 0, dev |-> "none",
         uniform |-> FALSE]

\* rng(shape).to(dtype): a random host tensor synthesized for a replay id.
RngTensor(replay_t_id, node_id) ==
    [kind |-> "rng", id |-> replay_t_id, node |-> node_id, iter |-> 0,
     dev |-> "cpu", uniform |-> FALSE]

\* input_args[idx] of generate_fbgemm_tensors(node, self.cuda).
FbgemmTensor(idx, node_id) ==
    [kind |-> "fbgemm", id |-> idx, node |-> node_id, iter |-> 0,
     dev |-> "cuda", uniform |-> FALSE]

\* The idx-th tensor an operator returns in iteration it.
OutputTensor(idx, node_id, it) ==
    [kind |-> "out", id |-> idx, node |-> node_id, iter |-> it,
     dev |-> "cuda", uniform |-> FALSE]

\* Whether TORCH_DTYPES_RNG has the data type (no KeyError at line 389).
HasRng(data_type) == data_type \in {"Tensor(float)", "Tensor(long)", "Tensor(int)"}

\* Mutant: an id that has a Permanent Registry entry is allocated again.
MustAllocateAgain(node, t_id, replay_t_id, dep, perm, inst) ==
    /\ t_id \in DOMAIN dep
    /\ \/ node.name = "aten::embedding_bag"
       \/ NameContains(node.name, "fbgemm::split_embedding_codegen_lookup")
       \/ replay_t_id \in inst

\* The condition of lines 372-380.
MustAllocate(node, t_id, replay_t_id, dep, perm, inst) ==
    /\ t_id \in DOMAIN dep
    /\ replay_t_id \notin DOMAIN perm
    /\ \/ node.name = "aten::embedding_bag"
       \/ NameContains(node.name, "fbgemm::split_embedding_codegen_lookup")
       \/ replay_t_id \in inst

\* Mutant: a data type without generator leaves no entry.
AllocateInputNoNull(node, idx, data_type, replay_t_id, al) ==
    IF is_fbgemm_forward(node)
    THEN [perm |-> (replay_t_id :> FbgemmTensor(idx, node.id)) @@ al.perm,
          unchangeable |->
            IF NameContains(node.name, "fbgemm::split_embedding_codegen_lookup")
            THEN al.unchangeable \cup {replay_t_id} ELSE al.unchangeable,
          cpu |-> al.cpu]
    ELSE IF HasRng(data_type)
    THEN [perm |-> (replay_t_id :> RngTensor(replay_t_id, node.id)) @@ al.perm,
          unchangeable |->
            IF node.name = "aten::embedding_bag"
            THEN al.unchangeable \cup {replay_t_id} ELSE al.unchangeable,
          cpu |-> IF node.name = "aten::pin_memory" /\ idx = 1
                  THEN al.cpu \cup {replay_t_id} ELSE al.cpu]
    ELSE al

\* Mutant: no seeded input is flagged unchangeable.
AllocateInputNoFlag(node, idx, data_type, replay_t_id, al) ==
    IF is_fbgemm_forward(node)
    THEN [al EXCEPT !.perm = (replay_t_id :> FbgemmTensor(idx, node.id)) @@ @]
    ELSE IF HasRng(data_type)
    THEN [perm |-> (replay_t_id :> RngTensor(replay_t_id, node.id)) @@ al.perm,
          unchangeable |-> al.unchangeable,
          cpu |-> IF node.name = "aten::pin_memory" /\ idx = 1
                  THEN al.cpu \cup {replay_t_id} ELSE al.cpu]
    ELSE [al EXCEPT !.perm = (replay_t_id :> None) @@ @]

\* Lines 381-402 for one input of the node.
AllocateInput(node, idx, data_type, replay_t_id, al) ==
    IF is_fbgemm_forward(node)
    THEN [perm |-> (replay_t_id :> FbgemmTensor(idx, node.id)) @@ al.perm,
          unchangeable |->
            IF NameContains(node.name, "fbgemm::split_embedding_codegen_lookup")
            THEN al.unchangeable \cup {replay_t_id} ELSE al.unchangeable,
          cpu |-> al.cpu]
    ELSE IF HasRng(data_type)
    THEN [perm |-> (replay_t_id :> RngTensor(replay_t_id, node.id)) @@ al.perm,
          unchangeable |->
            IF node.name = "aten::embedding_bag"
            THEN al.unchangeable \cup {replay_t_id} ELSE al.unchangeable,
          cpu |-> IF node.name = "aten::pin_memory" /\ idx = 1
                  THEN al.cpu \cup {replay_t_id} ELSE al.cpu]
    ELSE [al EXCEPT !.perm = (replay_t_id :> None) @@ @]

\* The loop of lines 368-402 over the inputs of one node, from index idx on.
RECURSIVE AllocateInputs(_, _, _, _, _, _, _)
AllocateInputs(node, idx, wd, dep, mapping, inst, al) ==
    IF idx > Len(node.inputs) THEN al
    ELSE LET a == node.inputs[idx]
             t_id == KeyOf(wd, a.t_id)
             replay_t_id == mapping[<<node.id, t_id, TRUE>>]
         IN AllocateInputs(node, idx + 1, wd, dep, mapping, inst,
              IF MustAllocate(node, t_id, replay_t_id, dep, al.perm, inst)
              THEN AllocateInput(node, idx, a.type, replay_t_id, al)
              ELSE al)

\* Lines 407-421: the offsets tensor of aten::embedding_bag (node.inputs[2])
\* is overwritten element by element; this raises when the slot is missing
\* or holds None.
OffsetsId(node, wd, mapping) ==
    mapping[<<node.id, KeyOf(wd, node.inputs[3].t_id), TRUE>>]

OffsetsWritable(node, wd, mapping, perm) ==
    /\ Len(node.inputs) >= 3
    /\ <<node.id, KeyOf(wd, node.inputs[3].t_id), TRUE>> \in DOMAIN mapping
    /\ OffsetsId(node, wd, mapping) \in DOMAIN perm
    /\ perm[OffsetsId(node, wd, mapping)] # None

MatchOffsets(node, wd, mapping, perm) ==
    [perm EXCEPT ![OffsetsId(node, wd, mapping)].uniform = TRUE]

\* One turn of the loop of allocate_tensors over sorted_nodes.
AllocateTensors ==
    /\ pc = "allocate"
    /\ cursor <= Len(sorted_nodes)
    /\ LET node == exgr[sorted_nodes[cursor]]
           al == AllocateInputs(node, 1, tensor_with_device, dependency_permanent,
                                tensors_mapping, instantiate,
                                [perm |-> tensor_registry_permanent,
                                 unchangeable |-> unchangeable_intermediate_tensors,
                                 cpu |-> cpu_tensor])
       IN /\ unchangeable_intermediate_tensors' = al.unchangeable
          /\ cpu_tensor' = al.cpu
          /\ IF node.name # "aten::embedding_bag"
             THEN /\ tensor_registry_permanent' = al.perm
                  /\ pc' = pc
                  /\ cursor' = cursor + 1
                  /\ failure' = failure
             ELSE IF OffsetsWritable(node, tensor_with_device, tensors_mapping, al.perm)
             THEN /\ tensor_registry_permanent' =
                       MatchOffsets(node, tensor_with_device, tensors_mapping, al.perm)
                  /\ pc' = pc
                  /\ cursor' = cursor + 1
                  /\ failure' = failure
             ELSE /\ tensor_registry_permanent' = al.perm
                  /\ pc' = "aborted"
                  /\ cursor' = cursor
                  /\ failure' = "allocate"
    /\ UNCHANGED <<configVars, report, stack, tensor_with_device, flattenVars,
                   identityVars, lifetimeVars, tensor_registry, loopVars, visited>>

\* ----------------------------------------------------------- reset_registry
\* v.cuda(self.device)
Cuda(v) == [v EXCEPT !.dev = "cuda"]

\* Mutant: every non-null entry is moved to the target device.
DerivedRegistryMoveAll(perm, wd, tdev, cpu) ==
    [k \in DOMAIN perm |-> IF perm[k] = None THEN None ELSE Cuda(perm[k])]

\* The registry reset_registry derives from the permanent registry.
DerivedRegistry(perm, wd, tdev, cpu) ==
    [k \in DOMAIN perm |->
        IF perm[k] = None THEN None
        ELSE IF wd
        THEN (IF tdev[k] = "cpu" THEN perm[k] ELSE Cuda(perm[k]))
        ELSE (IF k \in cpu THEN perm[k] ELSE Cuda(perm[k]))]

\* Mutant: the reset re-homes the entries of the permanent registry itself.
reset_registry_in_place ==
    /\ pc = "allocate"
    /\ cursor > Len(sorted_nodes)
    /\ tensor_registry' = DerivedRegistry(tensor_registry_permanent, tensor_with_device,
                                          tensor_device, cpu_tensor)
    /\ tensor_registry_permanent' = tensor_registry'
    /\ pc' = "loop"
    /\ UNCHANGED <<configVars, report, stack, cursor, tensor_with_device, flattenVars,
                   identityVars, lifetimeVars, unchangeable_intermediate_tensors,
                   cpu_tensor, loopVars, visited, failure>>

\* allocate_tensors is over: preprocess_graph calls reset_registry and
\* benchTime enters its loop.
reset_registry ==
    /\ pc = "allocate"
    /\ cursor > Len(sorted_nodes)
    /\ tensor_registry' = DerivedRegistry(tensor_registry_permanent, tensor_with_device,
                                          tensor_device, cpu_tensor)
    /\ pc' = "loop"
    /\ UNCHANGED <<configVars, report, stack, cursor, tensor_with_device, flattenVars,
                   identityVars, lifetimeVars, allocVars, loopVars, visited, failure>>


\* ------------------------------------------------------------------- run_op
\* The replay tensor ids get_inputs looks up for the tensor inputs of a node.
InputIds(node, wd, mapping) ==
    { mapping[<<node.id, KeyOf(wd, node.inputs[i].t_id), TRUE>>] :
        i \in 1..Len(node.inputs) }

\* Every lookup of get_inputs in self.tensor_registry finds its id.
InputsBound(node, wd, mapping, reg) == InputIds(node, wd, mapping) \subseteq DOMAIN reg

\* Mutant: the must-instantiate test of line 804 is missing.
MayBindIgnoringInstantiate(t_id, replay_t_id, dep, unchangeable, inst) ==
    /\ t_id \in DOMAIN dep
    /\ replay_t_id \notin unchangeable

\* Mutant: the unchangeable-intermediate test of lines 801-802 is missing.
MayBindIgnoringUnchangeable(t_id, replay_t_id, dep, unchangeable, inst) ==
    /\ t_id \in DOMAIN dep
    /\ replay_t_id \notin inst

\* The conditions of lines 799-804 on the replay id of an output.
MayBind(t_id, replay_t_id, dep, unchangeable, inst) ==
    /\ t_id \in DOMAIN dep
    /\ replay_t_id \notin unchangeable
    /\ replay_t_id \notin inst

\* Lines 796-807: zip(get_output_tensors(node), outputs), from index i on;
\* n is the number of tensors the operator returned.
RECURSIVE BindOutputs(_, _, _, _, _, _, _, _, _, _)
BindOutputs(node, i, n, it, wd, dep, mapping, unchangeable, inst, reg) ==
    IF i > Len(node.outputs) \/ i > n THEN reg
    ELSE LET t_id == KeyOf(wd, node.outputs[i].t_id)
             key == <<node.id, t_id, FALSE>>
         IN BindOutputs(node, i + 1, n, it, wd, dep, mapping, unchangeable, inst,
              IF t_id \in DOMAIN dep
                 /\ MayBind(t_id, mapping[key], dep, unchangeable, inst)
              THEN (mapping[key] :> OutputTensor(i, node.id, it)) @@ reg
              ELSE reg)

\* What a callable returns: tensors, lists of tensors, other values.
TensorValue == [kind |-> "tensor", n |-> 1]
TensorList(k) == [kind |-> "list", n |-> k]
OtherValue == [kind |-> "other", n |-> 0]

\* The operators whose callable returns its tensors as one list.
ListReturning(name) == name \in {"aten::split", "aten::unbind"}

\* tmp of lines 772-775: (func(*inputs),) for output_count 1, func(*inputs)
\* otherwise; the operator returns node.nret tensors.
ReturnValue(node, output_count) ==
    IF output_count = 1
    THEN (IF ListReturning(node.name) THEN <<TensorList(node.nret)>>
          ELSE IF node.nret = 1 THEN <<TensorValue>>
          ELSE <<OtherValue>>)
    ELSE [i \in 1..node.nret |-> TensorValue]

\* The loop of lines 782-786 from position p on: a list whose first element
\* is a tensor is spliced in, a tensor is appended, anything else is
\* dropped; x[0] raises on an empty list. outputs holds, per tensor, the
\* position of its value in tmp and its place in the list (0: no list).
RECURSIVE Flatten(_, _, _)
Flatten(tmp, p, acc) ==
    IF p > Len(tmp) THEN acc
    ELSE IF tmp[p].kind = "list"
    THEN (IF tmp[p].n = 0 THEN [acc EXCEPT !.raise = TRUE]
          ELSE Flatten(tmp, p + 1,
                 [acc EXCEPT !.outputs = @ \o [e \in 1..tmp[p].n |-> <<p, e>>]]))
    ELSE IF tmp[p].kind = "tensor"
    THEN Flatten(tmp, p + 1, [acc EXCEPT !.outputs = Append(@, <<p, 0>>)])
    ELSE Flatten(tmp, p + 1, acc)

\* Mutant: the value returned is flattened whatever the output count.
FlattenOutputsOfAnyCount(node, output_count) ==
    Flatten(ReturnValue(node, output_count), 1, [raise |-> FALSE, outputs |-> <<>>])

\* outputs of lines 769-786 for a callable that returned.
FlattenOutputs(node, output_count) ==
    IF output_count = 0 THEN [raise |-> FALSE, outputs |-> <<>>]
    ELSE Flatten(ReturnValue(node, output_count), 1, [raise |-> FALSE, outputs |-> <<>>])

\* The number of tensors in outputs after lines 769-786.
ReturnedCount(node, output_count) == Len(FlattenOutputs(node, output_count).outputs)

\* Mutant: the error of an operator is reported and the sweep goes on.
run_op_swallowing_error ==
    /\ pc = "sweep"
    /\ cursor <= Len(sorted_nodes)
    /\ LET node == exgr[sorted_nodes[cursor]]
           f == funcs[node.id]
       IN /\ dispatched' = Append(dispatched, <<iter, node.id>>)
          /\ IF f.func = "None"
             THEN /\ cursor' = cursor + 1
                  /\ UNCHANGED <<pc, tensor_registry, failure>>
             ELSE IF ~InputsBound(node, tensor_with_device, tensors_mapping,
                                  tensor_registry)
             THEN /\ pc' = "aborted"
                  /\ failure' = "inputs"
                  /\ UNCHANGED <<cursor, tensor_registry>>
             ELSE \E raises \in BOOLEAN :
                    IF raises
                    THEN /\ pc' = pc
                         /\ failure' = "operator"
                         /\ cursor' = cursor + 1
                         /\ UNCHANGED tensor_registry
                    ELSE IF FlattenOutputs(node, f.output_count).raise
                    THEN /\ pc' = "aborted"
                         /\ failure' = "outputs"
                         /\ UNCHANGED <<cursor, tensor_registry>>
                    ELSE /\ tensor_registry' =
                              BindOutputs(node, 1, ReturnedCount(node, f.output_count),
                                          iter, tensor_with_device, dependency_permanent,
                                          tensors_mapping,
                                          unchangeable_intermediate_tensors,
                                          instantiate, tensor_registry)
                         /\ cursor' = cursor + 1
                         /\ pc' = pc
                         /\ failure' = failure
    /\ UNCHANGED <<configVars, report, stack, tensor_with_device, flattenVars, identityVars,
                   lifetimeVars, allocVars, iter, total_time, timed_iters, visited>>

\* run_op(node, iter) for the next node of the sweep. The operator is
\* external: it returns, or raises and the run exits.
run_op ==
    /\ pc = "sweep"
    /\ cursor <= Len(sorted_nodes)
    /\ LET node == exgr[sorted_nodes[cursor]]
           f == funcs[node.id]
       IN /\ dispatched' = Append(dispatched, <<iter, node.id>>)
          /\ IF f.func = "None"
             THEN /\ cursor' = cursor + 1
                  /\ UNCHANGED <<pc, tensor_registry, failure>>
             ELSE IF ~InputsBound(node, tensor_with_device, tensors_mapping,
                                  tensor_registry)
             THEN /\ pc' = "aborted"
                  /\ failure' = "inputs"
                  /\ UNCHANGED <<cursor, tensor_registry>>
             ELSE \E raises \in BOOLEAN :
                    IF raises
                    THEN /\ pc' = "aborted"
                         /\ failure' = "operator"
                         /\ UNCHANGED <<cursor, tensor_registry>>
                    ELSE IF FlattenOutputs(node, f.output_count).raise
                    THEN /\ pc' = "aborted"
                         /\ failure' = "outputs"
                         /\ UNCHANGED <<cursor, tensor_registry>>
                    ELSE /\ tensor_registry' =
                              BindOutputs(node, 1, ReturnedCount(node, f.output_count),
                                          iter, tensor_with_device, dependency_permanent,
                                          tensors_mapping,
                                          unchangeable_intermediate_tensors,
                                          instantiate, tensor_registry)
                         /\ cursor' = cursor + 1
                         /\ pc' = pc
                         /\ failure' = failure
    /\ UNCHANGED <<configVars, report, stack, tensor_with_device, flattenVars, identityVars,
                   lifetimeVars, allocVars, iter, total_time, timed_iters, visited>>

\* ---------------------------------------------------------------- benchTime
\* The loop head of line 924 and event_1.record().
IterBegin ==
    /\ pc = "loop"
    /\ iter < numWarmupIters + numIters
    /\ pc' = "sweep"
    /\ cursor' = 1
    /\ UNCHANGED <<configVars, report, stack, tensor_with_device, flattenVars, identityVars,
                   lifetimeVars, allocVars, tensor_registry, loopVars, visited, failure>>

\* event_2.record() after the last node of the sweep.
RecordEnd ==
    /\ pc = "sweep"
    /\ cursor > Len(sorted_nodes)
    /\ pc' = "recorded"
    /\ UNCHANGED <<configVars, report, stack, cursor, tensor_with_device, flattenVars,
                   identityVars, lifetimeVars, allocVars, tensor_registry, loopVars, visited, failure>>

\* Mutant: the first timed iteration is left out.
AccumulateAfterWarmup(total, it, warmup) == IF it > warmup THEN total + 1 ELSE total

\* The elapsed time of an iteration is counted as one unit.
Accumulate(total, it, warmup) == IF it >= warmup THEN total + 1 ELSE total

\* Mutant: the barrier is passed right after the last dispatch, before
\* event_2.record().
SynchronizeBeforeRecord ==
    /\ pc \in {"sweep", "recorded"}
    /\ cursor > Len(sorted_nodes)
    /\ total_time' = IF iter >= numWarmupIters THEN total_time + 1 ELSE total_time
    /\ timed_iters' = IF total_time' # total_time THEN timed_iters \cup {iter}
                      ELSE timed_iters
    /\ iter' = iter + 1
    /\ pc' = "loop"
    /\ UNCHANGED <<configVars, report, stack, cursor, tensor_with_device, flattenVars,
                   identityVars, lifetimeVars, allocVars, tensor_registry, dispatched,
                   visited, failure>>

\* torch.cuda.synchronize() and the accumulation of lines 954-955.
Synchronize ==
    /\ pc = "recorded"
    /\ total_time' = Accumulate(total_time, iter, numWarmupIters)
    /\ timed_iters' = IF total_time' # total_time THEN timed_iters \cup {iter}
                      ELSE timed_iters
    /\ iter' = iter + 1
    /\ pc' = "loop"
    /\ UNCHANGED <<configVars, report, stack, cursor, tensor_with_device, flattenVars,
                   identityVars, lifetimeVars, allocVars, tensor_registry, dispatched,
                   visited, failure>>

\* "Replay time per iteration": total_time / self.numIters, as a fraction.
ReplayTimePerIteration(total, n) == <<total, n>>

\* "Operator coverage": len(sorted_nodes) / (len(sorted_nodes) +
\* actual_skip_nodes_cnt), as a fraction.
OperatorCoverage(nodes, skipped) == <<Len(nodes), Len(nodes) + skipped>>

\* The loop is over: the reports of lines 957-986.
Report ==
    /\ pc = "loop"
    /\ iter >= numWarmupIters + numIters
    /\ pc' = "done"
    /\ report' = [time |-> ReplayTimePerIteration(total_time, numIters),
                  coverage |-> OperatorCoverage(sorted_nodes, actual_skip_nodes_cnt)]
    /\ UNCHANGED <<configVars, stack, cursor, tensor_with_device, flattenVars,
                   identityVars, lifetimeVars, allocVars, tensor_registry, loopVars,
                   visited, failure>>

Next ==
    \/ DetectTensorDevice
    \/ DfsTraverse
    \/ AnalyzeTensorsIdentity
    \/ AnalyzeTensorsLifetime
    \/ AllocateTensors
    \/ reset_registry
    \/ IterBegin
    \/ run_op
    \/ RecordEnd
    \/ Synchronize
    \/ Report

Spec == Init /\ [][Next]_vars

\* ------------------------------------------------ reset_registry on its own
\* reset_registry as a function of the state it reads: the Permanent Registry
\* ranges over the maps allocate_tensors can leave for the replay tensor ids
\* 1..MaxResetIds, and the Working Registry is rebound at will between calls.
MaxResetIds == 2
MaxResets == 2

ResetIds == 1..MaxResetIds

PermanentValues(k) == {None, RngTensor(k, 2), FbgemmTensor(k, 2)}

ResetInit ==
    /\ exgr = EmptyMap
    /\ numWarmupIters = 0
    /\ numIters = 1
    /\ pc = "reset"
    /\ stack = <<>>
    /\ cursor = 0
    /\ tensor_with_device \in BOOLEAN
    /\ sorted_nodes = <<>>
    /\ selected = <<>>
    /\ dependency_permanent = EmptyMap
    /\ funcs = EmptyMap
    /\ fbgemm_backward_ops = <<>>
    /\ actual_skip_nodes = <<>>
    /\ actual_skip_nodes_cnt = 0
    /\ original_unique_tensors = {}
    /\ replay_unique_tensor_num = MaxResetIds
    /\ tensors_mapping = EmptyMap
    /\ replay_tensors_shapes = EmptyMap
    /\ tensor_shapes = EmptyMap
    /\ tensor_device \in IF tensor_with_device
                         THEN [ResetIds -> {"cpu", "cuda:0"}]
                         ELSE {EmptyMap}
    /\ output_set = {}
    /\ instantiate = {}
    /\ tensor_registry_permanent \in
         { f \in UNION { [D -> UNION { PermanentValues(k) : k \in ResetIds }] :
                           D \in SUBSET ResetIds } :
             \A k \in DOMAIN f : f[k] \in PermanentValues(k) }
    /\ tensor_registry = EmptyMap
    /\ unchangeable_intermediate_tensors = {}
    /\ cpu_tensor \in SUBSET { k \in DOMAIN tensor_registry_permanent :
                                  tensor_registry_permanent[k].kind = "rng" }
    /\ iter = 0
    /\ total_time = 0
    /\ timed_iters = {}
    /\ dispatched = <<>>
    /\ visited = <<>>
    /\ failure = "none"
    /\ report = Unreported

\* A call of reset_registry; cursor counts the calls since the last binding.
ResetRegistryCall ==
    /\ pc = "reset"
    /\ cursor < MaxResets
    /\ tensor_registry' = DerivedRegistry(tensor_registry_permanent, tensor_with_device,
                                          tensor_device, cpu_tensor)
    /\ cursor' = cursor + 1
    /\ UNCHANGED <<configVars, report, pc, stack, tensor_with_device, flattenVars,
                   identityVars, lifetimeVars, allocVars, loopVars, visited, failure>>

\* run_op binds an output to a replay tensor id of the Working Registry.
RunOpBind ==
    /\ pc = "reset"
    /\ \E k \in 1..(MaxResetIds + 1) :
         tensor_registry' = (k :> OutputTensor(1, 2, 0)) @@ tensor_registry
    /\ cursor' = 0
    /\ UNCHANGED <<configVars, report, pc, stack, tensor_with_device, flattenVars,
                   identityVars, lifetimeVars, allocVars, loopVars, visited, failure>>

ResetNext == ResetRegistryCall \/ RunOpBind

ResetSpec == ResetInit /\ [][ResetNext]_vars


\* ============================================================== properties
\* Positions of the run.
ExtractDone == pc \in {"identity", "allocate", "loop", "sweep", "recorded", "done"}
AnalyzeDone == pc \in {"allocate", "loop", "sweep", "recorded", "done"}
RunPhase == pc \in {"loop", "sweep", "recorded", "done"}

\* The occurrences of the ordered nodes whose key is in the Dependency Count
\* Map, and the replay tensor id tensors_mapping holds for an occurrence.
OccKey(o) == KeyOf(tensor_with_device, ArgOf(exgr, o).t_id)
OccShape(o) == ArgOf(exgr, o).shape
TrackedOccs ==
    { o \in Range(Occurrences(exgr, sorted_nodes)) :
        OccKey(o) \in DOMAIN dependency_permanent }
OccId(o) == tensors_mapping[<<o.node, OccKey(o), o.input>>]
ReferencedIds == { OccId(o) : o \in TrackedOccs }

\* The registry reset_registry derives from the Permanent Registry now.
Baseline ==
    DerivedRegistry(tensor_registry_permanent, tensor_with_device, tensor_device,
                    cpu_tensor)

\* A node of the ordered list has a callable that returns its i-th output.
Returns(n, i) ==
    /\ funcs[n].func # "None"
    /\ i \in 1..Len(exgr[n].outputs)
    /\ i <= ReturnedCount(exgr[n], funcs[n].output_count)

OutKey(n, i) == KeyOf(tensor_with_device, exgr[n].outputs[i].t_id)
OutId(n, i) == tensors_mapping[<<n, OutKey(n, i), FALSE>>]
TrackedOut(n, i) == OutKey(n, i) \in DOMAIN dependency_permanent

\* C1: at the start of every iteration the Working Registry equals the
\* registry derived from the Permanent Registry by reset_registry; nothing
\* bound by run_op in the previous iteration is still bound.
C1_RegistryFreshAtIterationStart ==
    (pc = "sweep" /\ cursor = 1) => tensor_registry = Baseline

\* C2: after analyze_tensors two tensor occurrences of the ordered nodes map
\* to the same Replay Tensor id if and only if they have the same Tensor
\* Identity Key and the same shape, two arguments of one node in one role
\* included.
C2_SameIdIffSameKeyAndShape ==
    AnalyzeDone =>
      \A o1, o2 \in TrackedOccs :
        (OccId(o1) = OccId(o2)) <=>
          (OccKey(o1) = OccKey(o2) /\ OccShape(o1) = OccShape(o2))

\* C3 as stated: after the lifetime analysis the must-instantiate set and
\* the produced-by-execution set are disjoint and every referenced tracked
\* Replay Tensor id is in exactly one of them.
C3_DisjointCoveringPartition ==
    AnalyzeDone =>
      /\ instantiate \cap output_set = {}
      /\ ReferencedIds \subseteq instantiate \cup output_set

\* C3 amended: after the lifetime analysis every Replay Tensor id that
\* tensors_mapping gives to a tracked occurrence of an ordered node is in the
\* must-instantiate set or in the produced-by-execution set (or in both), and
\* the two sets hold nothing else.
C3_Covering ==
    AnalyzeDone => ReferencedIds = instantiate \cup output_set

\* An id consumed before it is produced and produced later is in both sets.
C3_Witness ==
    /\ AnalyzeDone
    /\ instantiate \cap output_set # {}
    /\ instantiate \ output_set # {}
    /\ output_set \ instantiate # {}


\* The shape tensors_mapping ends up recording for an occurrence: the entry
\* is keyed by (node, key, role), so the last argument of the node that
\* carries the key in that role decides it.
OccArgs(o) == IF o.input THEN exgr[o.node].inputs ELSE exgr[o.node].outputs
LastWithKey(o) ==
    CHOOSE i \in 1..Len(OccArgs(o)) :
      /\ KeyOf(tensor_with_device, OccArgs(o)[i].t_id) = OccKey(o)
      /\ \A j \in 1..Len(OccArgs(o)) :
           KeyOf(tensor_with_device, OccArgs(o)[j].t_id) = OccKey(o) => j <= i
EffectiveShape(o) == OccArgs(o)[LastWithKey(o)].shape

\* C2 amended: after analyze_tensors two tracked occurrences of the ordered
\* nodes map to the same Replay Tensor id if and only if they have the same
\* Tensor Identity Key and the same recorded shape, where the shape recorded
\* for an occurrence is that of the last argument of its node that carries
\* its key in its role (the code assumes a key keeps one shape within the
\* inputs, or within the outputs, of an operator): two arguments of one node
\* in one role with the same key share one id.
C2_SameIdIffSameKeyAndRecordedShape ==
    AnalyzeDone =>
      \A o1, o2 \in TrackedOccs :
        (OccId(o1) = OccId(o2)) <=>
          (OccKey(o1) = OccKey(o2) /\ EffectiveShape(o1) = EffectiveShape(o2))

\* A key is met with two shapes, once within the inputs of a single node.
C2_Witness ==
    /\ AnalyzeDone
    /\ \E o1, o2 \in TrackedOccs :
         /\ o1.node = o2.node /\ o1.input = o2.input
         /\ OccKey(o1) = OccKey(o2) /\ OccShape(o1) # OccShape(o2)
    /\ \E o1, o2 \in TrackedOccs :
         /\ o1.node # o2.node
         /\ OccKey(o1) = OccKey(o2) /\ OccId(o1) # OccId(o2)

\* C4: run_op never rebinds the Working Registry slot of a must-instantiate
\* Replay Tensor id: at every point of the replay loop the slot holds the
\* value derived from the Permanent Registry.
C4_InstantiateSlotsKeepSeed ==
    RunPhase =>
      \A id \in instantiate :
        id \in DOMAIN tensor_registry /\ tensor_registry[id] = Baseline[id]

\* The run is over after two or more iterations in which a node with a
\* callable returned an output named by a must-instantiate id.
C4_Witness ==
    /\ pc = "done"
    /\ iter >= 2
    /\ \E n \in Range(sorted_nodes) : \E i \in 1..Len(exgr[n].outputs) :
         Returns(n, i) /\ TrackedOut(n, i) /\ OutId(n, i) \in instantiate

\* The node whose run_op call has just returned, 0 when there is none.
JustRun ==
    IF pc = "sweep" /\ cursor > 1 THEN sorted_nodes[cursor - 1]
    ELSE IF pc = "recorded" /\ sorted_nodes # <<>>
    THEN sorted_nodes[Len(sorted_nodes)]
    ELSE 0

\* The outputs of the node just run that name a must-instantiate id which is
\* not unchangeable-intermediate and is consumed by an earlier node.
SeededOutputs ==
    IF JustRun = 0 THEN {}
    ELSE { i \in 1..Len(exgr[JustRun].outputs) :
             /\ Returns(JustRun, i) /\ TrackedOut(JustRun, i)
             /\ OutId(JustRun, i) \in instantiate
             /\ OutId(JustRun, i) \notin unchangeable_intermediate_tensors
             /\ \E o \in TrackedOccs :
                  o.input /\ o.node < JustRun /\ OccId(o) = OutId(JustRun, i) }

\* C5 as stated: a must-instantiate id that is not unchangeable-intermediate
\* and is named as an output by a node holds that node's output in the
\* Working Registry once the node has executed.
C5_SeedOverwrittenByLaterOutput ==
    \A i \in SeededOutputs :
      /\ OutId(JustRun, i) \in DOMAIN tensor_registry
      /\ tensor_registry[OutId(JustRun, i)].kind = "out"
      /\ tensor_registry[OutId(JustRun, i)].node = JustRun

\* C5 amended: a must-instantiate id that is not unchangeable-intermediate
\* and is named as an output by a node is seeded by the Allocator and is not
\* overwritten when that node executes: after the node has run, the Working
\* Registry slot still holds the seeded value and not the node's output.
C5_SeedSurvivesLaterOutput ==
    \A i \in SeededOutputs :
      /\ OutId(JustRun, i) \in DOMAIN tensor_registry_permanent
      /\ OutId(JustRun, i) \in DOMAIN tensor_registry
      /\ tensor_registry[OutId(JustRun, i)] = Baseline[OutId(JustRun, i)]
      /\ tensor_registry[OutId(JustRun, i)].kind # "out"

\* In the second iteration or later, a node has just returned an output
\* naming an id that an earlier node made must-instantiate.
C5_Witness ==
    /\ iter >= 1
    /\ SeededOutputs # {}

\* C6: the Working Registry binding of every unchangeable-intermediate
\* Replay Tensor id is, after any number of iterations, the value seeded by
\* the Allocator.
C6_UnchangeableKeepSeed ==
    RunPhase =>
      \A id \in unchangeable_intermediate_tensors :
        /\ id \in DOMAIN tensor_registry
        /\ tensor_registry[id] = Baseline[id]
        /\ tensor_registry[id].kind \in {"rng", "fbgemm"}

\* The run is over after two or more iterations in which a node returned an
\* output bound to an unchangeable id that is not must-instantiate.
C6_Witness ==
    /\ pc = "done"
    /\ iter >= 2
    /\ \E n \in Range(sorted_nodes) : \E i \in 1..Len(exgr[n].outputs) :
         /\ Returns(n, i) /\ TrackedOut(n, i)
         /\ OutId(n, i) \in unchangeable_intermediate_tensors
         /\ OutId(n, i) \notin instantiate


\* C7: a qualified node whose operator has no resolvable implementation is
\* recorded as skipped and is not in the ordered node list after
\* extract_subgraph.
C7_UnresolvedNodeExcluded ==
    ExtractDone =>
      \A n \in DOMAIN funcs :
        funcs[n].func = "None" =>
          /\ exgr[n].name \in Range(actual_skip_nodes)
          /\ n \notin Range(sorted_nodes)

\* Strictly increasing by node id.
StrictlyIncreasing(nodes) ==
    \A i, j \in 1..Len(nodes) : i < j => nodes[i] < nodes[j]

\* The sequence nodes in the order given by the permutation f of its indices.
Reordered(nodes, f) == [i \in 1..Len(nodes) |-> nodes[f[i]]]

\* C8: after extract_subgraph the ordered node list is strictly increasing by
\* node id and holds exactly the selected nodes, whatever the order the
\* traversal inserted them in: flattening any other insertion order of the
\* same nodes gives the same sequence.
C8_OrderedByNodeId ==
    ExtractDone =>
      /\ StrictlyIncreasing(sorted_nodes)
      /\ Len(sorted_nodes) = Len(selected)
      /\ Range(sorted_nodes) = Range(selected)
      /\ \A f \in Permutations(1..Len(selected)) :
           SortById(Reordered(selected, f)) = sorted_nodes

\* The traversal selected three nodes in an order that is not the id order.
C8_Witness ==
    /\ ExtractDone
    /\ Len(selected) >= 3
    /\ ~StrictlyIncreasing(selected)

\* The run_op calls of iteration it, in the order they were made.
RECURSIVE DispatchesOf(_, _)
DispatchesOf(log, it) ==
    IF log = <<>> THEN <<>>
    ELSE IF Head(log)[1] = it THEN <<Head(log)[2]>> \o DispatchesOf(Tail(log), it)
    ELSE DispatchesOf(Tail(log), it)

\* C9: while the run has not aborted, every completed iteration dispatched
\* every node of the ordered list exactly once in ascending node id order,
\* the iteration under way has dispatched a prefix of the list, and every
\* dispatch of an iteration comes after all dispatches of the iterations
\* before it.
C9_OneOrderedSweepPerIteration ==
    RunPhase =>
      /\ \A it \in 0..(iter - 1) : DispatchesOf(dispatched, it) = sorted_nodes
      /\ StrictlyIncreasing(sorted_nodes)
      /\ DispatchesOf(dispatched, iter) =
           SubSeq(sorted_nodes, 1,
                  IF pc = "sweep" THEN cursor - 1
                  ELSE IF pc = "recorded" THEN Len(sorted_nodes) ELSE 0)
      /\ \A i, j \in 1..Len(dispatched) : i < j => dispatched[i][1] <= dispatched[j][1]
      /\ \A i \in 1..Len(dispatched) : dispatched[i][1] \in 0..iter

\* Three iterations over three nodes have been completed.
C9_Witness ==
    /\ pc = "done"
    /\ iter >= 3
    /\ Len(sorted_nodes) >= 3

\* C10 as stated: two nodes of the ordered list that reference the same
\* Tensor Identity Key with equal shapes in the same role get the same Replay
\* Tensor id for those occurrences.
C10_SameRoleSameKeyShapeSameId ==
    AnalyzeDone =>
      \A o1, o2 \in TrackedOccs :
        (/\ o1.node # o2.node /\ o1.input = o2.input
         /\ OccKey(o1) = OccKey(o2) /\ OccShape(o1) = OccShape(o2))
          => OccId(o1) = OccId(o2)

\* C10 amended: two nodes of the ordered list that reference the same Tensor
\* Identity Key in the same role get the same Replay Tensor id for those
\* occurrences when the shapes recorded for them are equal, the recorded
\* shape being that of the node's last argument carrying the key in that role.
C10_SameRoleSameKeyRecordedShapeSameId ==
    AnalyzeDone =>
      \A o1, o2 \in TrackedOccs :
        (/\ o1.node # o2.node /\ o1.input = o2.input
         /\ OccKey(o1) = OccKey(o2)
         /\ EffectiveShape(o1) = EffectiveShape(o2))
          => OccId(o1) = OccId(o2)

\* Two nodes carry one key with one shape in the same role, and the key has
\* a second shape elsewhere.
C10_Witness ==
    /\ AnalyzeDone
    /\ \E o1, o2 \in TrackedOccs :
         /\ o1.node # o2.node /\ o1.input = o2.input
         /\ OccKey(o1) = OccKey(o2) /\ OccShape(o1) = OccShape(o2)
         /\ EffectiveShape(o1) = EffectiveShape(o2)
         /\ Cardinality(tensor_shapes[OccKey(o1)]) >= 2

\* The shapes a tracked key is met with, over the tracked occurrences of the
\* ordered nodes, and the Replay Tensor ids tensor_shapes records for it.
ShapesObserved(k) == { OccShape(o) : o \in { x \in TrackedOccs : OccKey(x) = k } }
IdsRecorded(k) == { p[1] : p \in tensor_shapes[k] }
MultiShapeKeys ==
    { k \in DOMAIN tensor_shapes : Cardinality(ShapesObserved(k)) >= 2 }
ShapeWiseIds ==
    \A k \in MultiShapeKeys :
      /\ { p[2] : p \in tensor_shapes[k] } = ShapesObserved(k)
      /\ Cardinality(tensor_shapes[k]) = Cardinality(ShapesObserved(k))
      /\ Cardinality(IdsRecorded(k)) = Cardinality(ShapesObserved(k))

\* Some node consumes key k with shape s and no earlier node produces it with
\* that shape; by the shape of the argument, and by the recorded shape.
ConsumedFirst(k, s) ==
    \E o \in TrackedOccs :
      /\ o.input /\ OccKey(o) = k /\ OccShape(o) = s
      /\ ~ \E q \in TrackedOccs :
             ~q.input /\ q.node < o.node /\ OccKey(q) = k /\ OccShape(q) = s
ConsumedFirstAsRecorded(k, s) ==
    \E o \in TrackedOccs :
      /\ o.input /\ OccKey(o) = k /\ EffectiveShape(o) = s
      /\ ~ \E q \in TrackedOccs :
             ~q.input /\ q.node < o.node /\ OccKey(q) = k /\ EffectiveShape(q) = s

\* C11: a tracked key observed with two or more distinct shapes has one
\* Replay Tensor id per distinct shape, as many ids as shapes, and each of
\* these ids is must-instantiate exactly when its own (key, shape) is
\* consumed before any node produces it, whatever happens to the other
\* shapes of the key.
C11_OneIdPerShapeClassifiedIndependently ==
    AnalyzeDone =>
      /\ ShapeWiseIds
      /\ \A k \in MultiShapeKeys : \A p \in tensor_shapes[k] :
           (p[1] \in instantiate) <=> ConsumedFirst(k, p[2])

\* C11 amended: as C11, the shape of an occurrence being the one recorded
\* for it (that of the last argument of its node with its key in its role).
C11_OneIdPerShapeClassifiedByRecordedShape ==
    AnalyzeDone =>
      /\ ShapeWiseIds
      /\ \A k \in MultiShapeKeys : \A p \in tensor_shapes[k] :
           (p[1] \in instantiate) <=> ConsumedFirstAsRecorded(k, p[2])

\* A key has two shapes in two nodes: one of its ids is must-instantiate and
\* the other is produced by an earlier node.
C11_Witness ==
    /\ AnalyzeDone
    /\ \E k \in MultiShapeKeys : \E p, r \in tensor_shapes[k] :
         /\ p[1] \in instantiate /\ r[1] \notin instantiate
         /\ r[1] \in output_set
         /\ \E o1, o2 \in TrackedOccs :
              o1.node # o2.node /\ OccId(o1) = p[1] /\ OccId(o2) = r[1]

\* allocate_tensors has returned.
AllocateDone == RunPhase \/ (pc = "allocate" /\ cursor > Len(sorted_nodes))

\* C12: once allocate_tensors has returned no step of the run (the registry
\* reset, a run_op call, the loop bookkeeping) adds, removes or rebinds an
\* entry of the Permanent Registry.
C12_PermanentRegistryFrozen ==
    [][AllocateDone => tensor_registry_permanent' = tensor_registry_permanent]_vars

\* The run is over after two iterations in which run_op bound outputs next
\* to entries derived from a non-empty Permanent Registry.
C12_Witness ==
    /\ pc = "done"
    /\ iter >= 2
    /\ DOMAIN tensor_registry_permanent # {}
    /\ \E k \in DOMAIN tensor_registry : tensor_registry[k].kind = "out"
    /\ \E k \in DOMAIN tensor_registry_permanent :
         tensor_registry_permanent[k] # None /\ tensor_registry_permanent[k].dev # "cuda"

\* The id is left where it is by the reset: recorded on the cpu when device
\* placement is tracked, marked cpu-only when it is not.
KeptInPlace(k) ==
    IF tensor_with_device THEN tensor_device[k] = "cpu" ELSE k \in cpu_tensor

\* C13: whatever the Working Registry held before, after one call of
\* reset_registry and after any further number of calls it has exactly the
\* keys of the Permanent Registry, null entries are null, and every other
\* entry is the permanent value, in place for cpu-recorded or cpu-only ids
\* and on the target device otherwise.
C13_ResetIdempotent ==
    (pc = "reset" /\ cursor >= 1) =>
      /\ DOMAIN tensor_registry = DOMAIN tensor_registry_permanent
      /\ \A k \in DOMAIN tensor_registry_permanent :
           LET v == tensor_registry_permanent[k] IN
           IF v = None THEN tensor_registry[k] = None
           ELSE IF KeptInPlace(k) THEN tensor_registry[k] = v
           ELSE /\ tensor_registry[k].dev = "cuda"
                /\ [tensor_registry[k] EXCEPT !.dev = v.dev] = v

\* After a second call in a row the registry holds a null entry and a host
\* value left in place.
C13_Witness ==
    /\ pc = "reset"
    /\ cursor >= 2
    /\ \E k \in DOMAIN tensor_registry_permanent :
         tensor_registry_permanent[k] = None /\ tensor_registry[k] = None
    /\ \E k \in DOMAIN tensor_registry_permanent :
         /\ tensor_registry_permanent[k] # None
         /\ tensor_registry_permanent[k].dev = "cpu"
         /\ tensor_registry[k] = tensor_registry_permanent[k]

\* The node whose run_op call is the last one of the dispatch log.
LastDispatched == dispatched[Len(dispatched)]

\* C14: when an operator invocation raises (the callable itself, or the call
\* made with the inputs get_inputs failed to build), the run is over at the
\* failing node: nothing is enabled any more (no later node, no further
\* iteration, no report), the failing call is the last of the dispatch log,
\* and the Working Registry holds no output of the failing node for that
\* iteration.
C14_OperatorErrorAbortsRun ==
    failure \in {"operator", "inputs", "outputs"} =>
      /\ pc = "aborted"
      /\ ~ ENABLED Next
      /\ LastDispatched = <<iter, sorted_nodes[cursor]>>
      /\ Len(dispatched) = iter * Len(sorted_nodes) + cursor
      /\ \A k \in DOMAIN tensor_registry :
           ~ (/\ tensor_registry[k].kind = "out"
              /\ tensor_registry[k].node = sorted_nodes[cursor]
              /\ tensor_registry[k].iter = iter)

\* An operator raises in the second iteration, at a node that is not the
\* last of the ordered list and whose outputs are tracked.
C14_Witness ==
    /\ failure = "operator"
    /\ iter >= 1
    /\ cursor < Len(sorted_nodes)
    /\ \E i \in 1..Len(exgr[sorted_nodes[cursor]].outputs) :
         /\ TrackedOut(sorted_nodes[cursor], i)
         /\ MayBind(OutKey(sorted_nodes[cursor], i), OutId(sorted_nodes[cursor], i),
                    dependency_permanent, unchangeable_intermediate_tensors,
                    instantiate)

\* C15: when the flattener raises on a node, the process is over at that
\* node: nothing is enabled any more, the node is the last one looked at,
\* and identity resolution, lifetime analysis, allocation, the registry reset
\* and every operator dispatch have not happened.
C15_ParseErrorAbortsPreprocessing ==
    failure = "parse" =>
      /\ pc = "aborted"
      /\ ~ ENABLED Next
      /\ visited # <<>> /\ visited[Len(visited)] = Head(stack)
      /\ exgr[Head(stack)].malformed
      /\ replay_unique_tensor_num = 0 /\ tensors_mapping = EmptyMap
      /\ original_unique_tensors = {} /\ tensor_shapes = EmptyMap
      /\ instantiate = {} /\ output_set = {}
      /\ tensor_registry_permanent = EmptyMap /\ tensor_registry = EmptyMap
      /\ dispatched = <<>> /\ iter = 0 /\ total_time = 0

\* The flattener fails on a node after it has selected two operators with
\* tensors to resolve.
C15_Witness ==
    /\ failure = "parse"
    /\ Len(selected) >= 2
    /\ DOMAIN dependency_permanent # {}
    /\ \E n \in Range(selected) : funcs[n].func # "None"

\* The name of the node contains an entry of the skip list.
SkipListed(n) ==
    \E i \in 1..Len(skip_node_names) :
      skip_node_names[i] \in SubstringsOf(exgr[n].name)

\* The nodes below a node of the trace.
RECURSIVE Descendants(_)
Descendants(n) ==
    Range(exgr[n].children)
      \cup UNION { Descendants(c) : c \in Range(exgr[n].children) }

\* How often the skip tally holds the name of a node, and how many input
\* arguments of the selected nodes carry a key.
TallyOf(n) ==
    Cardinality({ i \in 1..Len(actual_skip_nodes) : actual_skip_nodes[i] = exgr[n].name })
InputUses(k) ==
    Cardinality({ o \in Range(Occurrences(exgr, selected)) : o.input /\ OccKey(o) = k })

\* C16: a node the flattener reaches whose name contains a skip-list entry
\* is not in the ordered list and has no callable, is in the skip tally
\* exactly once, leaves the Dependency Count Map to the input arguments of
\* the selected nodes alone, and none of its descendants is looked at,
\* selected or counted as skipped.
C16_SkipListedNodePruned ==
    \A n \in Range(visited) :
      SkipListed(n) =>
        /\ n \notin Range(sorted_nodes) /\ n \notin Range(selected)
        /\ n \notin DOMAIN funcs
        /\ TallyOf(n) = 1
        /\ actual_skip_nodes_cnt = Len(actual_skip_nodes)
        /\ \A k \in DOMAIN dependency_permanent :
             dependency_permanent[k] = InputUses(k) /\ InputUses(k) > 0
        /\ \A i \in 1..Len(exgr[n].inputs) :
             LET k == KeyOf(tensor_with_device, exgr[n].inputs[i].t_id)
             IN InputUses(k) = 0 => k \notin DOMAIN dependency_permanent
        /\ \A d \in Descendants(n) :
             /\ d \notin Range(visited)
             /\ d \notin Range(sorted_nodes) /\ d \notin DOMAIN funcs
             /\ TallyOf(d) = 0

\* The flattener is through a trace with a skip-listed operator that has
\* descendants and an input key no selected node consumes, while other keys
\* are counted.
C16_Witness ==
    /\ ExtractDone
    /\ DOMAIN dependency_permanent # {}
    /\ \E n \in Range(visited) :
         /\ SkipListed(n)
         /\ exgr[n].qualified
         /\ Descendants(n) # {}
         /\ \E i \in 1..Len(exgr[n].inputs) :
              KeyOf(tensor_with_device, exgr[n].inputs[i].t_id)
                \notin DOMAIN dependency_permanent

\* C17: once allocate_tensors has returned every must-instantiate Replay
\* Tensor id has an entry in the Permanent Registry, and from the registry
\* reset on each of them is bound in the Working Registry, to null exactly
\* when its permanent entry is null.
C17_InstantiateIdsSeeded ==
    /\ AllocateDone => instantiate \subseteq DOMAIN tensor_registry_permanent
    /\ RunPhase =>
         \A t \in instantiate :
           /\ t \in DOMAIN tensor_registry
           /\ (tensor_registry[t] = None) <=> (tensor_registry_permanent[t] = None)

\* The loop runs with a must-instantiate id whose synthesis failed and
\* another one that holds a synthesized value.
C17_Witness ==
    /\ RunPhase
    /\ \E t \in instantiate : tensor_registry[t] = None
    /\ \E t \in instantiate : tensor_registry[t] # None

\* C18: with W warmup and N timed iterations the elapsed time of an
\* iteration is added to the total exactly when its index is >= W: every
\* finished iteration with index >= W has contributed, none with index < W
\* has, and at the end exactly N iterations make up the total that the
\* reported mean divides by N.
C18_OnlyTimedIterationsAccumulate ==
    pc \in {"loop", "sweep", "recorded", "done"} =>
      /\ timed_iters = { i \in 0..(iter - 1) : i >= numWarmupIters }
      /\ total_time = Cardinality(timed_iters)
      /\ pc = "done" =>
           /\ Cardinality(timed_iters) = numIters
           /\ report.time = <<total_time, numIters>>
           /\ report.time[1] = numIters

\* A run with one warmup and two timed iterations has reported.
C18_Witness ==
    /\ pc = "done"
    /\ numWarmupIters >= 1 /\ numIters >= 2
    /\ 0 \notin timed_iters
    /\ report.time = <<2, 2>>

\* The sweeps of the ordered list the scheduler has completed.
SweepsDone == iter

\* C19: the process goes on until it is Done or aborted; Done comes after
\* exactly numWarmupIters + numIters sweeps of the ordered list, never more
\* are started, and an abort is always caused by an operator error (the
\* callable, or the call with inputs get_inputs could not build) or by a
\* parse error of the flattener.
C19_CompletesOrAbortsOnOperatorOrParseError ==
    /\ pc \notin {"done", "aborted"} => ENABLED Next
    /\ SweepsDone <= numWarmupIters + numIters
    /\ Len(dispatched) <= (numWarmupIters + numIters) * Len(sorted_nodes)
    /\ pc = "done" =>
         /\ SweepsDone = numWarmupIters + numIters
         /\ Len(dispatched) = (numWarmupIters + numIters) * Len(sorted_nodes)
         /\ failure = "none"
    /\ pc = "aborted" => failure \in {"operator", "inputs", "outputs", "parse"}

\* A node the flattener takes for an operator: a qualified one, one that
\* skip_op names, or one of the skip list.
OperatorLike(n) == exgr[n].qualified \/ exgr[n].skip \/ SkipListed(n)

\* C20: the reported coverage is replayed / (replayed + skipped), where
\* every operator-like node the flattener looked at is counted in exactly
\* one of the two, a node counted as replayed has a callable run_op has
\* dispatched it to, and no node is counted both as replayed and as skipped.
C20_CoverageCountsEachOperatorOnce ==
    pc = "done" =>
      /\ report.coverage =
           <<Len(sorted_nodes), Len(sorted_nodes) + actual_skip_nodes_cnt>>
      /\ \A n \in Range(visited) :
           OperatorLike(n) =>
             \/ n \in Range(sorted_nodes) /\ TallyOf(n) = 0
             \/ n \notin Range(sorted_nodes) /\ TallyOf(n) = 1
      /\ actual_skip_nodes_cnt =
           Cardinality({ n \in Range(visited) : TallyOf(n) = 1 })
      /\ \A n \in Range(sorted_nodes) :
           /\ funcs[n].func # "None"
           /\ \E i \in 1..Len(dispatched) : dispatched[i][2] = n

\* The node run_op is about to be called on.
AtDispatch == pc = "sweep" /\ cursor <= Len(sorted_nodes)
Current == sorted_nodes[cursor]

\* C21: whenever run_op resolves the inputs of a node that has a callable,
\* the Replay Tensor id of each of its tensor inputs is bound in the Working
\* Registry, to the value derived from the Permanent Registry or to an
\* output of a node dispatched before; no lookup hits an absent id.
C21_InputLookupsNeverAbsent ==
    /\ failure # "inputs"
    /\ (AtDispatch /\ funcs[Current].func # "None") =>
         \A t \in InputIds(exgr[Current], tensor_with_device, tensors_mapping) :
           /\ t \in DOMAIN tensor_registry
           /\ \/ t \in DOMAIN Baseline /\ tensor_registry[t] = Baseline[t]
              \/ /\ tensor_registry[t].kind = "out"
                 /\ \E i \in 1..Len(dispatched) :
                      dispatched[i] = <<tensor_registry[t].iter, tensor_registry[t].node>>

\* An input occurrence of the id with no strictly earlier node that has the
\* id as a tracked output.
ConsumedBeforeProduced(t) ==
    \E o \in TrackedOccs :
      /\ o.input /\ OccId(o) = t
      /\ ~ \E q \in TrackedOccs : ~q.input /\ q.node < o.node /\ OccId(q) = t

\* C22: after the lifetime analysis a tracked Replay Tensor id is
\* must-instantiate if and only if some node of the ordered list consumes it
\* as an input while no strictly earlier node has it as a tracked output; a
\* node that consumes and produces an id without earlier producer makes it
\* must-instantiate, and a chain in which every consumed id is produced by
\* an earlier node leaves the set empty.
C22_InstantiateIffConsumedBeforeProduced ==
    AnalyzeDone =>
      /\ instantiate \subseteq ReferencedIds
      /\ \A t \in ReferencedIds : (t \in instantiate) <=> ConsumedBeforeProduced(t)
      /\ \A o \in TrackedOccs :
           (o.input /\ \E q \in TrackedOccs :
                         ~q.input /\ q.node = o.node /\ OccId(q) = OccId(o)
                                  /\ ~ \E r \in TrackedOccs :
                                         ~r.input /\ r.node < o.node /\ OccId(r) = OccId(o))
             => OccId(o) \in instantiate

\* A chain of three nodes, each consumed tensor produced by the node before:
\* nothing is must-instantiate and the nodes are in id order.
C22_Witness ==
    /\ AnalyzeDone
    /\ Len(sorted_nodes) = 3
    /\ StrictlyIncreasing(sorted_nodes)
    /\ instantiate = {}
    /\ \E o1, o2 \in TrackedOccs :
         o1.input /\ o2.input /\ o1.node # o2.node /\ OccId(o1) # OccId(o2)

\* An operator of the specialized families.
Specialized(n) ==
    \/ exgr[n].name = "aten::embedding_bag"
    \/ "fbgemm::split_embedding_codegen_lookup" \in SubstringsOf(exgr[n].name)

\* The nodes at which allocate_tensors would give the id a Permanent
\* Registry entry if it had none, and the first of them.
Allocators(t) ==
    { n \in Range(sorted_nodes) :
        /\ Specialized(n) \/ t \in instantiate
        /\ \E o \in TrackedOccs : o.input /\ o.node = n /\ OccId(o) = t }
FirstAllocator(t) == CHOOSE n \in Allocators(t) : \A m \in Allocators(t) : n <= m

\* C23: after allocation every tracked Replay Tensor id that is an output
\* of a specialized-family operator is in the unchangeable-intermediate set.
C23_SpecializedOutputsUnchangeable ==
    AllocateDone =>
      \A n \in Range(sorted_nodes) : \A i \in 1..Len(exgr[n].outputs) :
        (Specialized(n) /\ TrackedOut(n, i)) =>
          OutId(n, i) \in unchangeable_intermediate_tensors

\* C23 amended: after allocation the unchangeable-intermediate set holds
\* exactly the tracked Replay Tensor ids that the Allocator seeded with a
\* value as an input of a specialized-family operator, the id having no
\* Permanent Registry entry before that operator was reached; no id is
\* flagged for being an output of such an operator.
C23_SpecializedSeededInputsUnchangeable ==
    AllocateDone =>
      unchangeable_intermediate_tensors =
        { t \in ReferencedIds :
            /\ Allocators(t) # {}
            /\ Specialized(FirstAllocator(t))
            /\ tensor_registry_permanent[t] # None }

\* Allocation is over for a specialized operator with a flagged input and a
\* tracked output that is not flagged, and an input seeded by an earlier
\* ordinary node that is not flagged either.
C23_Witness ==
    /\ AllocateDone
    /\ \E n \in Range(sorted_nodes) :
         /\ Specialized(n)
         /\ \E i \in 1..Len(exgr[n].outputs) :
              TrackedOut(n, i) /\ OutId(n, i) \notin unchangeable_intermediate_tensors
         /\ \E o \in TrackedOccs :
              o.input /\ o.node = n /\ OccId(o) \in unchangeable_intermediate_tensors
         /\ \E o \in TrackedOccs :
              /\ o.input /\ o.node = n
              /\ OccId(o) \notin unchangeable_intermediate_tensors
              /\ tensor_registry_permanent[OccId(o)] # None

\* The input occurrences of a node, and the last node before n that has the
\* key and shape of an input occurrence as a tracked output.
InputOccs(n) == { o \in TrackedOccs : o.input /\ o.node = n }
ProducersBefore(o) ==
    { q \in TrackedOccs :
        ~q.input /\ q.node < o.node /\ OccKey(q) = OccKey(o)
                 /\ OccShape(q) = OccShape(o) }
LastProducer(o) ==
    CHOOSE q \in ProducersBefore(o) : \A r \in ProducersBefore(o) : r.node <= q.node

\* C24: when a node m of the ordered list has a tracked output with key K
\* and shape S and a later node n has an input with K and S, both
\* occurrences have the same Replay Tensor id, and unless that id is
\* must-instantiate or unchangeable-intermediate, n finds in the Working
\* Registry, when it is dispatched, the value the last such m bound in the
\* same iteration.
C24_ProducerConsumerWiring ==
    /\ AnalyzeDone =>
         \A o \in TrackedOccs : o.input =>
           \A q \in ProducersBefore(o) : OccId(q) = OccId(o)
    /\ (AtDispatch /\ funcs[Current].func # "None") =>
         \A o \in InputOccs(Current) :
           (/\ ProducersBefore(o) # {}
            /\ OccId(o) \notin instantiate
            /\ OccId(o) \notin unchangeable_intermediate_tensors) =>
             /\ OccId(o) \in DOMAIN tensor_registry
             /\ tensor_registry[OccId(o)] =
                  OutputTensor(LastProducer(o).idx, LastProducer(o).node, iter)

\* The input arguments of the ordered nodes that carry a key.
InputArgs(k) ==
    { o \in Range(Occurrences(exgr, sorted_nodes)) : o.input /\ OccKey(o) = k }

\* C25: only the keys of the Dependency Count Map are tracked. Every key
\* that owns a Replay Tensor id is an input of some ordered node, the count
\* of a key is the number of its input occurrences over the ordered nodes,
\* and an output whose key no ordered node consumes has no Replay Tensor id,
\* is in no lifetime set and is never bound into the Working Registry.
C25_OnlyDependencyKeysTracked ==
    ExtractDone =>
      /\ \A k \in DOMAIN dependency_permanent :
           dependency_permanent[k] = Cardinality(InputArgs(k)) /\ InputArgs(k) # {}
      /\ \A k \in DOMAIN tensor_shapes : InputArgs(k) # {}
      /\ \A e \in DOMAIN tensors_mapping : InputArgs(e[2]) # {}
      /\ instantiate \cup output_set \subseteq
           UNION { IdsRecorded(k) : k \in DOMAIN tensor_shapes }
      /\ \A n \in Range(sorted_nodes) : \A i \in 1..Len(exgr[n].outputs) :
           InputArgs(OutKey(n, i)) = {} =>
             /\ <<n, OutKey(n, i), FALSE>> \notin DOMAIN tensors_mapping
             /\ OutKey(n, i) \notin DOMAIN tensor_shapes
             /\ \A t \in DOMAIN tensor_registry :
                  ~ (/\ tensor_registry[t].kind = "out"
                     /\ tensor_registry[t].node = n
                     /\ tensor_registry[t].id = i)

\* The run is over; a node returned an output whose key nobody consumes,
\* next to a tracked output that was bound, and one key is consumed twice.
C25_Witness ==
    /\ pc = "done"
    /\ \E k \in DOMAIN dependency_permanent : dependency_permanent[k] >= 2
    /\ \E n \in Range(sorted_nodes) : \E i \in 1..Len(exgr[n].outputs) :
         Returns(n, i) /\ ~TrackedOut(n, i)
    /\ \E t \in DOMAIN tensor_registry : tensor_registry[t].kind = "out"

\* The tensors a returned value holds, and the order of two places in it.
RECURSIVE TensorsIn(_)
TensorsIn(tmp) ==
    IF tmp = <<>> THEN 0
    ELSE (IF Head(tmp).kind = "other" THEN 0 ELSE Head(tmp).n) + TensorsIn(Tail(tmp))
LeftOf(a, b) == a[1] < b[1] \/ (a[1] = b[1] /\ a[2] < b[2])

\* C26: when a callable with non-zero expected output count returns, the
\* run goes on whatever the value is made of (one tensor, many, lists of
\* tensors); the flattened outputs are all its tensors from left to right,
\* and the i-th of them is bound to the Replay Tensor id of the i-th
\* declared output whenever that id is tracked, not unchangeable-
\* intermediate and not must-instantiate, replacing what the slot held.
C26_ReturnedTensorsFlattenedAndBound ==
    /\ failure # "outputs"
    /\ ExtractDone =>
         \A n \in Range(sorted_nodes) :
           (funcs[n].func # "None" /\ funcs[n].output_count # 0) =>
             LET out == FlattenOutputs(exgr[n], funcs[n].output_count)
             IN /\ ~out.raise
                /\ Len(out.outputs) =
                     TensorsIn(ReturnValue(exgr[n], funcs[n].output_count))
                /\ \A i, j \in 1..Len(out.outputs) :
                     i < j => LeftOf(out.outputs[i], out.outputs[j])
    /\ JustRun # 0 =>
         \A i \in 1..Len(exgr[JustRun].outputs) :
           (/\ Returns(JustRun, i) /\ TrackedOut(JustRun, i)
            /\ OutId(JustRun, i) \notin unchangeable_intermediate_tensors
            /\ OutId(JustRun, i) \notin instantiate) =>
             /\ OutId(JustRun, i) \in DOMAIN tensor_registry
             /\ tensor_registry[OutId(JustRun, i)] = OutputTensor(i, JustRun, iter)

\* ---------------------------------------------------------------------- C27
\* The next step of the sweep dispatches a node whose callable is resolved
\* with expected output count zero.
DispatchOfZeroOutputCount ==
    /\ AtDispatch
    /\ funcs[Current].func # "None"
    /\ funcs[Current].output_count = 0

\* C27: dispatching a node whose resolved callable has expected output count
\* zero leaves the Working Registry unchanged: no output is bound, whatever
\* output tensors the node declares.
C27_ZeroOutputCountBindsNothing ==
    [][(DispatchOfZeroOutputCount /\ dispatched' # dispatched)
         => tensor_registry' = tensor_registry]_vars

\* A node of output count zero has just returned; it declares an output that
\* is tracked, is neither unchangeable-intermediate nor must-instantiate, and
\* its callable returned a tensor.
C27_Witness ==
    /\ JustRun # 0
    /\ failure = "none"
    /\ funcs[JustRun].func # "None"
    /\ funcs[JustRun].output_count = 0
    /\ exgr[JustRun].nret > 0
    /\ \E i \in 1..Len(exgr[JustRun].outputs) :
         /\ TrackedOut(JustRun, i)
         /\ OutId(JustRun, i) \notin unchangeable_intermediate_tensors
         /\ OutId(JustRun, i) \notin instantiate

\* ---------------------------------------------------------------------- C28
\* event_2.record() of iteration it has been called.
EndRecorded(it) == it < iter \/ (it = iter /\ pc = "recorded")

\* torch.cuda.synchronize() of iteration it has returned: the step that
\* passes the barrier ends the iteration.
BarrierPassed(it) == it < iter

\* Every node of the ordered list has been dispatched in iteration it.
SweepComplete(it) ==
    \A n \in Range(sorted_nodes) : \E i \in 1..Len(dispatched) : dispatched[i] = <<it, n>>

\* C28 as stated: in every iteration the barrier comes after the last node
\* dispatch of the iteration and before the end timestamp of the iteration is
\* recorded, so an end timestamp is never recorded ahead of its barrier.
C28_BarrierBeforeEndTimestamp ==
    pc \in {"loop", "sweep", "recorded", "done"} =>
      \A it \in 0..iter :
        /\ BarrierPassed(it) => SweepComplete(it)
        /\ EndRecorded(it) => BarrierPassed(it)

\* C28 amended: in every iteration the end timestamp is recorded after the
\* last node dispatch of the iteration, the synchronize barrier comes after
\* the end timestamp is recorded with no dispatch in between, and the elapsed
\* time is accumulated only in passing the barrier.
C28_EndRecordedThenBarrier ==
    [][/\ (pc' = "recorded" /\ pc # "recorded") =>
            /\ pc = "sweep"
            /\ SweepComplete(iter)
            /\ dispatched' = dispatched
       /\ iter' # iter =>
            /\ pc = "recorded"
            /\ SweepComplete(iter)
            /\ dispatched' = dispatched
            /\ iter' = iter + 1
       /\ total_time' # total_time => (pc = "recorded" /\ iter' # iter)]_vars

\* The barrier of a second iteration has been passed after a sweep of two or
\* more nodes, and the elapsed time of the iteration was accumulated.
C28_Witness ==
    /\ pc = "loop"
    /\ iter >= 2
    /\ Len(sorted_nodes) >= 2
    /\ (iter - 1) \in timed_iters
    /\ failure = "none"

\* ---------------------------------------------------------------------- C29
\* The argument allocate_tensors looks at when it gives the id its
\* Permanent Registry entry: the first tracked input of the first allocating
\* node that names the id.
SeedingArg(t) ==
    LET n == FirstAllocator(t)
        named == { i \in 1..Len(exgr[n].inputs) :
                     /\ KeyOf(tensor_with_device, exgr[n].inputs[i].t_id)
                          \in DOMAIN dependency_permanent
                     /\ tensors_mapping[<<n, KeyOf(tensor_with_device,
                                                  exgr[n].inputs[i].t_id), TRUE>>] = t }
    IN exgr[n].inputs[CHOOSE i \in named : \A j \in named : i <= j]

\* The Allocator cannot synthesize a value for the id.
Unsynthesizable(t) ==
    /\ Allocators(t) # {}
    /\ ~is_fbgemm_forward(exgr[FirstAllocator(t)])
    /\ ~HasRng(SeedingArg(t).type)

\* C29: when the Allocator cannot synthesize a value for a Replay Tensor id
\* allocation does not abort: the Permanent Registry slot of the id is null,
\* the remaining tensors and nodes get their entries, and the registry reset
\* leaves the slot null in the Working Registry.
C29_AllocationErrorLeavesNullSlot ==
    /\ failure # "allocate"
    /\ AllocateDone =>
         \A t \in ReferencedIds :
           /\ Allocators(t) # {} => t \in DOMAIN tensor_registry_permanent
           /\ Unsynthesizable(t) => tensor_registry_permanent[t] = None
    /\ (pc = "loop" /\ iter = 0) =>
         \A t \in DOMAIN tensor_registry_permanent :
           tensor_registry_permanent[t] = None =>
             (t \in DOMAIN tensor_registry /\ tensor_registry[t] = None)

\* ---------------------------------------------------------------------- C30
\* The occurrence the next turn of the identity pass resolves, and whether
\* it is a tracked output.
ResolvedOcc == Occurrences(exgr, sorted_nodes)[cursor]
ResolvesOutput ==
    /\ pc = "identity"
    /\ cursor <= Len(Occurrences(exgr, sorted_nodes))
    /\ ~ResolvedOcc.input
    /\ OccKey(ResolvedOcc) \in DOMAIN dependency_permanent

\* The tracked inputs of the node of q that carry the key of q.
InputsOfKey(q) ==
    { o \in TrackedOccs : o.input /\ o.node = q.node /\ OccKey(o) = OccKey(q) }

\* C30 as stated: when the identity pass resolves an output of a node that
\* carries the same key as an input with another shape, the output gets a
\* Replay Tensor id different from the id of that input occurrence, and the
\* id of the input occurrence stays as it was.
C30_OutputIdDiffersFromInput ==
    [][(ResolvesOutput /\ cursor' # cursor) =>
         LET q == ResolvedOcc
         IN \A o \in InputsOfKey(q) :
              /\ OccShape(o) # OccShape(q) =>
                   tensors_mapping'[<<q.node, OccKey(q), FALSE>>] # OccId(o)
              /\ tensors_mapping'[<<o.node, OccKey(o), TRUE>>] = OccId(o)]_vars

\* C30 amended: resolving an output of a node changes the id of no input
\* occurrence, and the output gets an id different from the id held for the
\* inputs of the node with its key exactly when its shape differs from the
\* shape of the last input of the node with that key (the inputs of a node
\* with one key share the entry of the last of them).
C30_OutputResolvedApartFromInputs ==
    [][(ResolvesOutput /\ cursor' # cursor) =>
         LET q == ResolvedOcc
         IN /\ \A o \in InputsOfKey(q) :
                 (tensors_mapping'[<<q.node, OccKey(q), FALSE>>] # OccId(o))
                   <=> (OccShape(q) # EffectiveShape(o))
            /\ \A m \in DOMAIN tensors_mapping :
                 m[3] => tensors_mapping'[m] = tensors_mapping[m]]_vars

\* The identity pass is over for a node that carries a key as an input of
\* one shape and as an output of another and holds two ids for them.
C30_Witness ==
    /\ AnalyzeDone
    /\ \E q, o \in TrackedOccs :
         /\ o.input /\ ~q.input /\ o.node = q.node /\ OccKey(o) = OccKey(q)
         /\ OccShape(o) # OccShape(q)
         /\ OccId(o) # OccId(q)

\* ---------------------------------------------------------------------- C31
\* The nodes whose children list holds n.
Parents(n) == { p \in DOMAIN exgr : n \in Range(exgr[p].children) }

\* C31: no node of the ordered list is a descendant of another node of the
\* ordered list: nothing below a selected node is ever looked at, and the
\* flattener looks only at children of the root or of a node it has looked
\* at that is neither skip-listed nor selected.
C31_NoOrderedNodeBelowAnother ==
    /\ \A n, m \in Range(sorted_nodes) : m \notin Descendants(n)
    /\ \A n \in Range(selected) : Descendants(n) \cap Range(visited) = {}
    /\ \A v \in Range(visited) : \A p \in Parents(v) :
         \/ p = RootId
         \/ /\ p \in Range(visited)
            /\ ~SkipListed(p)
            /\ p \notin Range(selected)

\* The traversal is over with two or more selected nodes, one of which has
\* operators below it in the trace.
C31_Witness ==
    /\ ExtractDone
    /\ \E n \in Range(sorted_nodes) :
         /\ ~SkipListed(n)
         /\ \E c \in Descendants(n) : exgr[c].qualified
    /\ Len(sorted_nodes) >= 2

\* ---------------------------------------------------------------------- C32
\* What allocate_tensors synthesized for an entry: nothing, or a value of
\* some kind made for some node.
SeedOf(v) == IF v = None THEN <<"None">> ELSE <<v.kind, v.id, v.node>>

\* C32: every unchangeable-intermediate Replay Tensor id has an entry in the
\* Permanent Registry and, once the loop runs, in the Working Registry; an
\* id is flagged only in the allocation step that gives it its entry, and an
\* entry, once made, is never seeded again.
C32_UnchangeableIdsSeededOnce ==
    [][/\ unchangeable_intermediate_tensors' \subseteq DOMAIN tensor_registry_permanent'
       /\ RunPhase' =>
            unchangeable_intermediate_tensors' \subseteq DOMAIN tensor_registry'
       /\ \A t \in unchangeable_intermediate_tensors' \ unchangeable_intermediate_tensors :
            t \notin DOMAIN tensor_registry_permanent
       /\ \A t \in DOMAIN tensor_registry_permanent :
            /\ t \in DOMAIN tensor_registry_permanent'
            /\ SeedOf(tensor_registry_permanent'[t]) = SeedOf(tensor_registry_permanent[t])
            /\ t \notin unchangeable_intermediate_tensors =>
                 t \notin unchangeable_intermediate_tensors']_vars

\* The loop runs after a specialized operator got one input flagged and
\* seeded, and found another of its inputs seeded by an earlier node.
C32_Witness ==
    /\ RunPhase
    /\ \E n \in Range(sorted_nodes) :
         /\ Specialized(n)
         /\ \E o \in InputOccs(n) :
              /\ OccId(o) \in unchangeable_intermediate_tensors
              /\ tensor_registry_permanent[OccId(o)].node = n
         /\ \E o \in InputOccs(n) :
              /\ OccId(o) \notin unchangeable_intermediate_tensors
              /\ OccId(o) \in DOMAIN tensor_registry_permanent
              /\ tensor_registry_permanent[OccId(o)] # None
              /\ tensor_registry_permanent[OccId(o)].node < n

\* ---------------------------------------------------------------------- C33
\* The (key, shape) pairs and the ids tensor_shapes records.
RecordedPairs ==
    UNION { { <<k, p[2]>> : p \in tensor_shapes[k] } : k \in DOMAIN tensor_shapes }
MintedIds ==
    UNION { { p[1] : p \in tensor_shapes[k] } : k \in DOMAIN tensor_shapes }

\* The bookkeeping of the identity pass is consistent: the ids are 1..N for
\* the mint counter N, one per recorded (key, shape) pair, each under one key
\* with one shape, which is the shape replay_tensors_shapes holds for it.
IdentityConsistent ==
    /\ MintedIds = 1..replay_unique_tensor_num
    /\ DOMAIN replay_tensors_shapes = 1..replay_unique_tensor_num
    /\ { tensors_mapping[m] : m \in DOMAIN tensors_mapping }
         \subseteq 1..replay_unique_tensor_num
    /\ Cardinality(RecordedPairs) = replay_unique_tensor_num
    /\ DOMAIN tensor_shapes = original_unique_tensors
    /\ \A k1, k2 \in DOMAIN tensor_shapes :
         \A p1 \in tensor_shapes[k1] : \A p2 \in tensor_shapes[k2] :
           p1[1] = p2[1] => (k1 = k2 /\ p1[2] = p2[2])
    /\ \A k \in DOMAIN tensor_shapes : \A p \in tensor_shapes[k] :
         replay_tensors_shapes[p[1]] = p[2]

\* C33: at every point of the identity pass the ids minted so far are
\* exactly 1..N with N the mint counter, N is the number of distinct (key,
\* shape) pairs recorded, each id has one key and one shape, the shape
\* recorded for an id is the shape of the pair that minted it, and a step of
\* the pass changes neither the pair of an id nor the id assigned to an
\* occurrence of a node other than the one it is resolving.
C33_IdentityPassInvariants ==
    [][/\ IdentityConsistent'
       /\ \A id \in DOMAIN replay_tensors_shapes :
            replay_tensors_shapes'[id] = replay_tensors_shapes[id]
       /\ \A k \in DOMAIN tensor_shapes :
            k \in DOMAIN tensor_shapes' /\ tensor_shapes[k] \subseteq tensor_shapes'[k]
       /\ \A m \in DOMAIN tensors_mapping :
            \/ /\ pc = "identity"
               /\ cursor <= Len(Occurrences(exgr, sorted_nodes))
               /\ m[1] = ResolvedOcc.node
            \/ /\ m \in DOMAIN tensors_mapping'
               /\ tensors_mapping'[m] = tensors_mapping[m]]_vars

\* The identity pass is under way with three or more ids, a key recorded
\* with two shapes, and an id shared by occurrences of two nodes.
C33_Witness ==
    /\ pc = "identity"
    /\ cursor <= Len(Occurrences(exgr, sorted_nodes))
    /\ replay_unique_tensor_num >= 3
    /\ \E k \in DOMAIN tensor_shapes : Cardinality(tensor_shapes[k]) >= 2
    /\ \E m1, m2 \in DOMAIN tensors_mapping :
         m1[1] # m2[1] /\ tensors_mapping[m1] = tensors_mapping[m2]

====
